---- MODULE Spec2Model ----
(***************************************************************************)
(* A model of the mood runtime: the ModelBuffer facade with its two draw   *)
(* techniques (src/render/model) and the asynchronous asset loader         *)
(* (src/ui/loader.rs).                                                     *)
(*                                                                         *)
(*   MBSpec      the ModelBuffer as gameplay code drives it                *)
(*   LoaderSpec  one load batch of Loader::spawn_threads                   *)
(*   LoaderLive  LoaderSpec under the fairness of OS threads               *)
(***************************************************************************)
EXTENDS Integers, Sequences, FiniteSets, TLC

(***************************************************************************)
(* Bounds of the model                                                     *)
(***************************************************************************)
\* ModelInstance identifiers issued over the lifetime of a ModelBuffer
MaxInstanceId == 3
\* materials loaded into a ModelBuffer driven by gameplay code
MaxMaterials == 2
\* models loaded into a ModelBuffer driven by gameplay code
MaxModels == 2
\* mesh parts of one model
MaxParts == 2
\* transforms handed in by gameplay code: translations 0..MaxTransform
MaxTransform == 1
\* queue_count of the device's second queue family: 1..MaxQueues
MaxQueues == 2
\* mesh parts placed in one geometry buffer (GeomSpec)
\* subgroup sizes of the devices: 1, 2, .. 2 ^ MaxSubgroupLog
MaxSubgroupLog == 2

\* frames a ray-trace technique records
MaxFrames == 2

\* materials the loader loads before frames are recorded
MaxFrameMaterials == 1

\* the largest subgroup size, input length and input value of one exclusive sum
MaxSubgroupSize == 4
MaxInputCount == 5
MaxCount == 2

\* the longest run of vertices of one bounding sphere and the most reduce
\* passes followed in one of its loops
MaxVertexCount == 5
MaxReducePasses == 3

\* the largest shader group handle size and base alignment (as a power of two)
MaxHandleSize == 10
MaxAlignLog == 4

\* the largest vertex index of a drawn triangle list and its most triangles
MaxVertex == 4
MaxTriangles == 3

\* the largest coordinate of a start position and of a direction, in steps
\* of two, and the most loop iterations of one walk that are followed
MaxCoordinate == 16
MaxDirection == 4
MaxWalkIterations == 40
MaxMeshes == 3

(***************************************************************************)
(* Program constants                                                       *)
(***************************************************************************)
MAX_MATERIALS_PER_MODEL == 8
INSTANCE_GRANULARITY == 64
mesh_capacity == 5000
u16_MAX == 65535
size_of_f32 == 4
model_capacity == 5000

(***************************************************************************)
(* Sequence helpers: Rust's Vec and slice operations                       *)
(***************************************************************************)
\* Vec::remove(idx) in the place of swap_remove: the elements behind idx
\* shift down by one
SwapRemoveKeepOrder(v, idx) ==
    [k \in 1..(Len(v) - 1) |-> IF k <= idx THEN v[k] ELSE v[k + 1]]

\* Vec::swap_remove(idx): the last element takes the place of element idx
\* (0-based), the vector shrinks by one.  The caller has checked idx < len.
SwapRemove(v, idx) ==
    [k \in 1..(Len(v) - 1) |-> IF k = idx + 1 THEN v[Len(v)] ELSE v[k]]

\* v[idx] of a Vec (0-based)
At(v, idx) == v[idx + 1]

\* the Vec<bool> dirty maps are kept as their length and the set of the
\* indices that hold true
DirtyNew(len) == [len |-> len, set |-> {}]

DirtyMark(d, idx) == [d EXCEPT !.set = @ \cup {idx}]

DirtyPush(d) == [len |-> d.len + 1, set |-> d.set \cup {d.len}]

CeilDiv(a, b) == (a + b - 1) \div b

\* material_array: the first MAX_MATERIALS_PER_MODEL materials of the slice,
\* padded with its first material
material_array(slice) ==
    [k \in 1..MAX_MATERIALS_PER_MODEL |->
        IF k <= Len(slice) THEN slice[k] ELSE slice[1]]

(***************************************************************************)
(* State                                                                   *)
(***************************************************************************)
VARIABLES
    \* ModelBuffer
    material_count,
    mesh_count,
    geometry_len,           \* bytes of the geometry buffer in use
    model_count,
    model_instance_id,
    model_instance_index,   \* HashMap<ModelInstance, usize>
    model_instances,        \* Vec<ModelInstance>
    textures,               \* Vec<Arc<Image>>
    technique,              \* Box<dyn Technique>: a Raster or a RayTrace
    \* the caller of the ModelBuffer
    loaded_models,          \* the Model handles load_model has returned
    \* the process
    panicked,               \* "no", or the place of the panic that ended it
    \* history, for stating the claims
    written,                \* per live handle, the data last written for it
    issued,                 \* the handles insert_model_instance has returned
    geometries,             \* per mesh part placed: its Geometry and mesh index
    \* the device and the render graph of the frame
    subgroup_size,          \* Vulkan11Properties::subgroup_size
    gpu,                    \* contents of the technique's device buffers
    passes,                 \* the passes the latest record call recorded
    \* the render primitives, each on its own
    sbt,                    \* ShaderBindingTable and the device it is built on
    excl_sum,               \* ExclusiveSumPipeline and the buffers of one sum
    bounding_sphere,        \* BoundingSpherePipeline and the buffers of one run
    \* the level
    nav_mesh,               \* NavigationMesh, its construction and one walk
    \* Loader::spawn_threads: its arguments and locals
    info,                   \* LoadInfo: the keys of the batch
    thread_count,
    queue_count,            \* transfer queues of the device
    sent,                   \* messages the spawning thread has sent so far
    total,
    queue,                  \* the unbounded channel, first in first out
    threads,                \* per worker: where it is and its locals
    err,                    \* AtomicBool
    loaded,                 \* AtomicUsize
    locks,                  \* per mutex held across a blocking call: its owner
    bitmap_cache,           \* BitmapId -> Option<Arc<Image>>, per-bitmap entries
    image_loader,           \* Option<ImageLoader>
    bitmap_buf,             \* Option<BitmapBuffer>
    model_buf,              \* Option<ModelBuffer>: Some holds the fields above
    bitmaps, fonts, materials, models, scenes, sounds,   \* the result maps
    \* history of the batch, for stating the claims
    decodes,                \* per bitmap id, the images decode_linear returned
    uploads,                \* per material / model id, the handles uploads returned
    model_buf_news,         \* successful ModelBuffer::new calls
    queue_uses,             \* per upload issued: its worker and queue index
    \* the caller that polls the Loader
    ui,                     \* where its update stands, threads joined so far
    progress                \* Option: what progress() last returned

unitVars == <<sbt, excl_sum, bounding_sphere, nav_mesh>>

mbVars == <<material_count, mesh_count, geometry_len, geometries, model_count, model_instance_id, issued, subgroup_size, gpu, passes, unitVars,
            model_instance_index, model_instances, textures, technique,
            loaded_models, panicked, written>>

chanVars == <<info, thread_count, queue_count, sent, total, queue>>

resultVars == <<bitmaps, fonts, materials, models, scenes, sounds>>

imageVars == <<bitmap_cache, image_loader, decodes>>

uiVars == <<ui, progress>>

ldVars == <<chanVars, threads, err, loaded, locks, imageVars, bitmap_buf,
            model_buf, resultVars, uploads, model_buf_news, queue_uses, uiVars>>

vars == <<mbVars, ldVars>>

\* Option<T>
None == <<>>

Some(x) == <<x>>

(***************************************************************************)
(* Raster technique (src/render/model/raster.rs)                           *)
(***************************************************************************)
Raster_new ==
    [kind |-> "Raster",
     mesh_count |-> 0,
     mesh_instance_count |-> 0,
     mesh_instance_dirty |-> 0,
     mesh_instance_count_dirty |->
        DirtyNew(CeilDiv(mesh_capacity, INSTANCE_GRANULARITY)),
     mesh_instance_counts |-> <<>>,
     model_instance_dirty |->
        DirtyNew(CeilDiv(model_capacity, INSTANCE_GRANULARITY)),
     model_instances |-> <<>>,
     model_mesh_count |-> <<>>]

\* Raster::load_model past the bounding-sphere passes, for a model of
\* `parts` mesh parts
Raster_load_model(t, parts) ==
    LET model_idx == Len(t.model_mesh_count)
        dirty_len == CeilDiv(model_idx + parts, INSTANCE_GRANULARITY)
    IN  [t EXCEPT
            !.model_mesh_count = Append(@, parts),
            !.mesh_count = @ + parts,
            !.mesh_instance_counts = @ \o [k \in 1..parts |-> 0],
            !.mesh_instance_count_dirty =
                IF @.len < dirty_len
                THEN [len |-> dirty_len, set |-> @.set \cup (@.len..(dirty_len - 1))]
                ELSE @]

\* the mesh indices of the model an instance draws, as push and swap-remove
\* walk them
Raster_mesh_range(t, data) ==
    data.model.mesh_idx ..
        (data.model.mesh_idx + At(t.model_mesh_count, data.model.model_idx) - 1)

\* an index of push_model_instance or swap_remove_model_instance is out of
\* bounds for this instance data: the call panics
Raster_out_of_bounds(t, data) ==
    \/ data.model.model_idx >= Len(t.model_mesh_count)
    \/ \E idx \in Raster_mesh_range(t, data) :
          \/ idx >= Len(t.mesh_instance_counts)
          \/ idx \div INSTANCE_GRANULARITY >= t.mesh_instance_count_dirty.len

\* push that sets a flag only when it grows the flag vector
Raster_push_dirty_grow_only(t) ==
    LET dirty_idx == Len(t.model_instances) \div INSTANCE_GRANULARITY
    IN  [t EXCEPT !.model_instance_dirty =
            IF dirty_idx = @.len THEN DirtyPush(@) ELSE @]

Raster_push_dirty(t) ==
    LET dirty_idx == Len(t.model_instances) \div INSTANCE_GRANULARITY
    IN  [t EXCEPT !.model_instance_dirty =
            IF dirty_idx = @.len THEN DirtyPush(@) ELSE DirtyMark(@, dirty_idx)]

Raster_push_model_instance(t, data) ==
    LET t1 == Raster_push_dirty(t)
        range == Raster_mesh_range(t, data)
        \* the loop stops (panics) at the first index past the count table
        walked == {idx \in range : idx < Len(t.mesh_instance_counts)}
    IN  [t1 EXCEPT
            !.model_instances = Append(@, data),
            !.mesh_instance_count = @ + Cardinality(range),
            !.mesh_instance_counts =
                [k \in 1..Len(@) |-> IF (k - 1) \in walked THEN @[k] + 1 ELSE @[k]],
            !.mesh_instance_count_dirty =
                [@ EXCEPT !.set = @ \cup {idx \div INSTANCE_GRANULARITY : idx \in walked}]]

Raster_index_mut(t, idx) ==
    [t EXCEPT !.model_instance_dirty = DirtyMark(@, idx \div INSTANCE_GRANULARITY)]

\* swap-remove that reads the removed instance after the swap: the counts
\* of the instance moved into the slot are decremented instead
Raster_swap_remove_reads_moved(t, idx) ==
    LET removed == At(t.model_instances, Len(t.model_instances) - 1)
        range == Raster_mesh_range(t, removed)
    IN  [t EXCEPT
            !.mesh_instance_dirty = IF @ < idx THEN @ ELSE idx,
            !.model_instances = SwapRemove(@, idx),
            !.mesh_instance_count = @ - Cardinality(range),
            !.mesh_instance_counts =
                [k \in 1..Len(@) |-> IF (k - 1) \in range THEN @[k] - 1 ELSE @[k]]]

Raster_swap_remove_model_instance(t, idx) ==
    LET last_idx == (Len(t.model_instances) - 1) \div INSTANCE_GRANULARITY
        removed == At(t.model_instances, idx)
        range == Raster_mesh_range(t, removed)
    IN  [t EXCEPT
            !.mesh_instance_dirty = IF @ < idx THEN @ ELSE idx,
            !.model_instance_dirty =
                IF last_idx \in @.set
                THEN DirtyMark(@, idx \div INSTANCE_GRANULARITY)
                ELSE @,
            !.model_instances = SwapRemove(@, idx),
            !.mesh_instance_count = @ - Cardinality(range),
            !.mesh_instance_counts =
                [k \in 1..Len(@) |-> IF (k - 1) \in range THEN @[k] - 1 ELSE @[k]],
            !.mesh_instance_count_dirty =
                [@ EXCEPT !.set = @ \cup {i \div INSTANCE_GRANULARITY : i \in range}]]

(***************************************************************************)
(* Ray trace technique (src/render/model/ray_trace.rs)                     *)
(***************************************************************************)
RayTrace_new ==
    [kind |-> "RayTrace", model_instances |-> <<>>, model_blas |-> <<>>,
     frame_idx |-> 0]

\* one bottom-level structure per model, built from its `parts` geometries
RayTrace_load_model(t, geoms) ==
    [t EXCEPT !.model_blas = Append(@, [geometries |-> geoms])]

RayTrace_push_model_instance(t, data) ==
    [t EXCEPT !.model_instances = Append(@, data)]

RayTrace_swap_remove_model_instance(t, idx) ==
    [t EXCEPT !.model_instances = SwapRemove(@, idx)]

(***************************************************************************)
(* dyn Technique dispatch                                                  *)
(***************************************************************************)
Technique_load_model(t, geoms) ==
    IF t.kind = "Raster" THEN Raster_load_model(t, Len(geoms))
                         ELSE RayTrace_load_model(t, geoms)

Technique_push_panics(t, data) ==
    t.kind = "Raster" /\ Raster_out_of_bounds(t, data)

Technique_push_model_instance(t, data) ==
    IF t.kind = "Raster" THEN Raster_push_model_instance(t, data)
                         ELSE RayTrace_push_model_instance(t, data)

Technique_index_mut(t, idx) ==
    IF t.kind = "Raster" THEN Raster_index_mut(t, idx) ELSE t

\* a technique that removes with Vec::remove, shifting the later slots down
Technique_remove_shifting(t, idx) ==
    [t EXCEPT !.model_instances = SwapRemoveKeepOrder(@, idx)]

Technique_swap_remove_model_instance(t, idx) ==
    IF t.kind = "Raster" THEN Raster_swap_remove_model_instance(t, idx)
                         ELSE RayTrace_swap_remove_model_instance(t, idx)

\* no render primitive is run on its own
UnitIdle ==
    sbt = <<>> /\ excl_sum = <<>> /\ bounding_sphere = <<>> /\ nav_mesh = <<>>

(***************************************************************************)
(* 32-bit arithmetic (src/math.rs)                                         *)
(***************************************************************************)
RECURSIVE BitAnd(_, _)
\* a & b of two unsigned integers
BitAnd(a, b) ==
    IF a = 0 \/ b = 0 THEN 0
    ELSE (a % 2) * (b % 2) + 2 * BitAnd(a \div 2, b \div 2)

\* align_up that forgets to add atom - 1 before masking
align_up_u32_mask_only(val, atom) == val - BitAnd(val, atom - 1)

\* align_up_u32: (val + atom - 1) & !(atom - 1). The mask !(atom - 1)
\* clears of the sum the bits that atom - 1 has. The sum is below 2 ^ 31 for
\* the values used here, so it does not wrap at 32 bits.
align_up_u32(val, atom) ==
    LET sum == val + atom - 1
    IN  sum - BitAnd(sum, atom - 1)

(***************************************************************************)
(* Exclusive sum, host side (src/render/excl_sum.rs)                       *)
(***************************************************************************)
Pass(name, reads, writes) == [name |-> name, reads |-> reads, writes |-> writes]

ExclusiveSumPipeline_align_input_count(S, input_count) ==
    align_up_u32(input_count, S)

\* the number of workgroups of the two dispatches
ExclusiveSumPipeline_workgroup_count(S, input_count) == input_count \div S

ExclusiveSumPipeline_reduce_count(S, input_count) ==
    ExclusiveSumPipeline_workgroup_count(S, input_count) - 1

\* record with the scan pass begun before the reduce pass
ExclusiveSumPipeline_record_scan_first(S, input_buf, input_count, output_buf) ==
    IF input_count = 0 THEN <<>>
    ELSE <<Pass("exclusive sum scan", {"workgroup_buf", input_buf}, {output_buf})>>
         \o (IF ExclusiveSumPipeline_reduce_count(S, input_count) > 0
             THEN <<Pass("exclusive sum reduce", {input_buf}, {"workgroup_buf"})>>
             ELSE <<>>)

\* ExclusiveSumPipeline::record: the passes it begins, in order
ExclusiveSumPipeline_record(S, input_buf, input_count, output_buf) ==
    IF input_count = 0 THEN <<>>
    ELSE (IF ExclusiveSumPipeline_reduce_count(S, input_count) > 0
          THEN <<Pass("exclusive sum reduce", {input_buf}, {"workgroup_buf"})>>
          ELSE <<>>)
         \o <<Pass("exclusive sum scan", {"workgroup_buf", input_buf}, {output_buf})>>

\* the scan dispatched with the workgroup count of the reduce
ExclusiveSumPipeline_dispatch_scan_reduce_count(S, input_count) ==
    IF input_count = 0 THEN <<>>
    ELSE (IF ExclusiveSumPipeline_reduce_count(S, input_count) > 0
          THEN <<[name |-> "exclusive sum reduce",
                  group_count |-> ExclusiveSumPipeline_reduce_count(S, input_count)]>>
          ELSE <<>>)
         \o <<[name |-> "exclusive sum scan",
               group_count |-> ExclusiveSumPipeline_reduce_count(S, input_count)]>>

\* ExclusiveSumPipeline::record: the dispatch of each pass it begins
ExclusiveSumPipeline_dispatch(S, input_count) ==
    IF input_count = 0 THEN <<>>
    ELSE (IF ExclusiveSumPipeline_reduce_count(S, input_count) > 0
          THEN <<[name |-> "exclusive sum reduce",
                  group_count |-> ExclusiveSumPipeline_reduce_count(S, input_count)]>>
          ELSE <<>>)
         \o <<[name |-> "exclusive sum scan",
               group_count |-> ExclusiveSumPipeline_workgroup_count(S, input_count)]>>

(***************************************************************************)
(* Recording a frame (raster.rs 360-674 and 753-907, ray_trace.rs 245-507) *)
(***************************************************************************)
\* copy_buffer_region of `data` to offset 0 of a device buffer: what lies
\* past the copied region stays
Upload(buf, data) == data \o SubSeq(buf, Len(data) + 1, Len(buf))

\* the device buffers a technique creates, nothing written yet
Gpu_new(kind) ==
    IF kind = "Raster"
    THEN [model_instance_buf |-> <<>>,
          mesh_instance_count_buf |-> <<>>,
          mesh_instance_buf |-> <<>>]
    ELSE [tlas |-> <<>>, model_instances_buf |-> <<>>]

\* raster.rs 54-59 and 569-594: the device record of an instance
Raster_ModelInstanceRef(data) ==
    [material_indices |-> data.materials,
     rotation |-> data.rotation,
     translation |-> data.translation,
     model_idx |-> data.model.model_idx]

RECURSIVE Raster_mesh_instance_refs(_, _)
\* update_mesh_instance_buf, lines 375-391: one MeshInstanceRef per mesh of
\* each of the first n instances, in instance order
Raster_mesh_instance_refs(t, n) ==
    IF n = 0 THEN <<>>
    ELSE LET data == At(t.model_instances, n - 1)
         IN  Raster_mesh_instance_refs(t, n - 1)
             \o [k \in 1..At(t.model_mesh_count, data.model.model_idx) |->
                    [mesh_idx |-> data.model.mesh_idx + k - 1,
                     model_instance_idx |-> n - 1]]

\* an upload that is skipped unless an instance was removed
Raster_mesh_instances_stale_on_remove(t) == t.mesh_instance_dirty < Len(t.model_instances) - 1

\* the upload is skipped while no instance at or past mesh_instance_dirty
\* exists
Raster_mesh_instances_stale(t) == t.mesh_instance_dirty < Len(t.model_instances)

\* the temporary buffer of update_mesh_instance_buf: mesh_instance_count
\* entries long, filled from the front
Raster_mesh_instance_temp(t) ==
    LET refs == Raster_mesh_instance_refs(t, Len(t.model_instances))
    IN  [k \in 1..t.mesh_instance_count |->
            IF k <= Len(refs) THEN refs[k] ELSE "uninit"]

Raster_record_outcomes == {"ok", "offset", "mesh"}

\* Raster::record: the technique, the device buffers and the passes after
\* the call. `outcome` names the lease that fails, if one does.
Raster_record(t, g, S, outcome) ==
    LET input_count == ExclusiveSumPipeline_align_input_count(S, t.mesh_count)
        count_upload ==
            <<Pass("copy mesh_instance_counts", {"temp_buf"}, {"mesh_instance_count_buf"})>>
        excl_sum_passes ==
            ExclusiveSumPipeline_record(S, "mesh_instance_count_buf", input_count,
                                        "mesh_instance_offset_buf")
        mesh_cmd ==
            <<Pass("Mesh command", {"mesh_buf", "mesh_instance_offset_buf"}, {"draw_cmd_buf"})>>
        model_upload ==
            <<Pass("copy model_instances", {"temp_buf"}, {"model_instance_buf"})>>
        stale == Raster_mesh_instances_stale(t)
        mesh_upload ==
            IF stale
            THEN <<Pass("copy mesh_instances", {"temp_buf"}, {"mesh_instance_buf"})>>
            ELSE <<>>
        mesh_cull ==
            <<Pass("Mesh cull",
                   {"model_instance_buf", "mesh_instance_buf", "mesh_instance_offset_buf",
                    "bounding_sphere_buf"},
                   {"draw_cmd_buf", "draw_instance_buf"})>>
        mesh_draw ==
            <<Pass("Mesh draw",
                   {"draw_cmd_buf", "geometry_buf", "camera_buf", "draw_instance_buf",
                    "mesh_instance_buf", "mesh_buf", "model_instance_buf", "material_buf"},
                   {"framebuffer", "depth_image"})>>
    IN  IF outcome = "offset"
        THEN [t |-> t, gpu |-> g, passes |-> <<>>, result |-> "err"]
        ELSE IF outcome = "mesh" /\ stale
        THEN [t |-> t, gpu |-> g, result |-> "err",
              passes |-> count_upload \o excl_sum_passes \o mesh_cmd \o model_upload]
        ELSE [t |-> [t EXCEPT !.mesh_instance_dirty =
                        IF stale THEN Len(t.model_instances) ELSE @],
              gpu |->
                 [mesh_instance_count_buf |->
                     Upload(g.mesh_instance_count_buf, t.mesh_instance_counts),
                  model_instance_buf |->
                     Upload(g.model_instance_buf,
                            [k \in 1..Len(t.model_instances) |->
                                Raster_ModelInstanceRef(t.model_instances[k])]),
                  mesh_instance_buf |->
                     IF stale
                     THEN Upload(g.mesh_instance_buf, Raster_mesh_instance_temp(t))
                     ELSE g.mesh_instance_buf],
              passes |-> count_upload \o excl_sum_passes \o mesh_cmd \o model_upload
                         \o mesh_upload \o mesh_cull \o mesh_draw,
              result |-> "ok"]

\* ray_trace.rs 29-33 and 409-418: the device record of an instance
RayTrace_ModelInstanceRef(data) ==
    [material_indices |-> data.materials, mesh_index |-> data.model.mesh_idx]

\* a top-level entry whose custom index is the model's index
RayTrace_tlas_instance_by_model(t, instance_index) ==
    LET data == At(t.model_instances, instance_index)
    IN  [instance_custom_index |-> data.model.model_idx % 2 ^ 24,
         acceleration_structure_reference |-> At(t.model_blas, data.model.model_idx),
         rotation |-> data.rotation,
         translation |-> data.translation]

\* build_tlas, lines 252-279: the top-level entry of the instance at a slot
RayTrace_tlas_instance(t, instance_index) ==
    LET data == At(t.model_instances, instance_index)
    IN  [instance_custom_index |-> instance_index % 2 ^ 24,
         acceleration_structure_reference |-> At(t.model_blas, data.model.model_idx),
         rotation |-> data.rotation,
         translation |-> data.translation]

\* self.model_blas[model_idx] of build_tlas is out of bounds for an instance
RayTrace_build_tlas_panics(t) ==
    \E k \in DOMAIN t.model_instances :
        t.model_instances[k].model.model_idx >= Len(t.model_blas)

RayTrace_record_outcomes == {"ok", "instance"}

\* RayTrace::record. frame_idx.wrapping_add(1) wraps at 2 ^ 32, far past
\* the frames recorded here.
RayTrace_record(t, g, outcome) ==
    IF RayTrace_build_tlas_panics(t)
    THEN [t |-> t, gpu |-> g, passes |-> <<>>, result |-> "panic"]
    ELSE IF outcome = "instance"
    THEN [t |-> t, gpu |-> g, passes |-> <<>>, result |-> "err"]
    ELSE [t |-> [t EXCEPT !.frame_idx = @ + 1],
          gpu |->
             [tlas |-> [k \in 1..Len(t.model_instances) |->
                          RayTrace_tlas_instance(t, k - 1)],
              model_instances_buf |->
                 [k \in 1..Len(t.model_instances) |->
                     RayTrace_ModelInstanceRef(t.model_instances[k])]],
          passes |->
             <<Pass("Build TLAS", {"model_blas", "instance_buf"}, {"tlas"}),
               Pass("Reference path trace",
                    {"sbt", "tlas", "geometry_buf", "material_buf", "mesh_buf",
                     "model_instances_buf"},
                    {"framebuffer"})>>,
          result |-> "ok"]

Technique_record_outcomes(t) ==
    IF t.kind = "Raster" THEN Raster_record_outcomes ELSE RayTrace_record_outcomes

Technique_record(t, g, S, outcome) ==
    IF t.kind = "Raster" THEN Raster_record(t, g, S, outcome)
                         ELSE RayTrace_record(t, g, outcome)

(***************************************************************************)
(* ModelBuffer (src/render/model/mod.rs)                                   *)
(***************************************************************************)
Techniques == {"Raster", "RayTrace"}

Technique_new(kind) == IF kind = "Raster" THEN Raster_new ELSE RayTrace_new

\* the fields ModelBuffer::new sets
ModelBuffer_new(kind) ==
    /\ material_count = 0
    /\ mesh_count = 0
    /\ geometry_len = 0
    /\ geometries = <<>>
    /\ model_count = 0
    /\ model_instance_id = 0
    /\ issued = <<>>
    /\ gpu = Gpu_new(kind)
    /\ passes = <<>>
    /\ model_instance_index = <<>>
    /\ model_instances = <<>>
    /\ textures = <<>>
    /\ technique = Technique_new(kind)

\* the handles of the index map, and the map without one of them
LiveHandles == DOMAIN model_instance_index

MapRemove(m, key) == [k \in (DOMAIN m) \ {key} |-> m[k]]

MapInsert(m, key, value) ==
    [k \in (DOMAIN m) \cup {key} |-> IF k = key THEN value ELSE m[k]]

\* what gameplay code may hand in: the Material and Model handles that
\* load_material and load_model returned, a transform
Materials == 0..(material_count - 1)

Transforms ==
    {[translation |-> k, rotation |-> MaxTransform - k] : k \in 0..MaxTransform}

MaterialSlices == [1..1 -> Materials]

ModelInstanceData(slice, model, transform) ==
    [materials |-> slice, model |-> model,
     rotation |-> transform.rotation, translation |-> transform.translation]

(* ---- load_material ---------------------------------------------------- *)
LoadOutcomes == {"ok", "lease", "technique", "submit"}

\* ModelBuffer::load_material: the textures are pushed before the upload is
\* leased and submitted; the count moves only when the submit succeeded
ModelBuffer_load_material(color, normal, params, emissive, outcome) ==
    /\ textures' = textures \o <<color, normal, params>> \o emissive
    /\ material_count' = IF outcome = "ok" THEN material_count + 1 ELSE material_count

\* the MaterialData record written for the material about to be loaded
MaterialData(emissive) ==
    [color_index |-> Len(textures), EMISSIVE |-> emissive # <<>>]

(* ---- load_model ------------------------------------------------------- *)
\* math.rs: (val + atom - 1) & !(atom - 1), atom a power of two
align_up_u64(val, atom) == (val + atom - 1) - ((val + atom - 1) % atom)

\* a mesh part as read from the archive: the index count of its base lod,
\* the byte length of its vertex data and the byte stride of a vertex
\* lines 374-376
vertex_count(part) == part.vertex_len \div part.vertex_stride

\* 16-bit indices given up one vertex early
index_is_u32_from_max(part) == vertex_count(part) >= u16_MAX

\* line 380
index_is_u32(part) == vertex_count(part) > u16_MAX

\* line 381: index_is_u32 as usize + 1
index_shift(part) == (IF index_is_u32(part) THEN 1 ELSE 0) + 1

\* line 382: index_count << index_shift
index_len(part) == part.index_count * 2 ^ index_shift(part)

\* the vertex data put right behind the indices
vertex_offset_unaligned(part) == index_len(part)

\* line 384
vertex_offset(part) == align_up_u64(index_len(part), size_of_f32)

\* line 385
mesh_offset(part) == vertex_offset(part) + part.vertex_len

\* lines 465-466: geometry_len after the parts, from len on
RECURSIVE GeometryLenAfter(_, _)
GeometryLenAfter(len, mesh_parts) ==
    IF mesh_parts = <<>> THEN len
    ELSE GeometryLenAfter(align_up_u64(len + mesh_offset(Head(mesh_parts)), size_of_f32),
                          Tail(mesh_parts))

\* lines 433-463: the Geometry pushed for a part placed at len and the
\* index of the Mesh record written for it; index_len and vertex_len are
\* the bytes of the two blocks copied into the geometry buffer
Geometry(len, mesh, part) ==
    [index_is_u32 |-> index_is_u32(part),
     index_count |-> part.index_count,
     index_offset |-> len,
     index_len |-> index_len(part),
     vertex_count |-> vertex_count(part),
     vertex_offset |-> len + vertex_offset(part),
     vertex_len |-> part.vertex_len,
     mesh |-> mesh]

\* ModelBuffer::load_model of a model of the given mesh parts.  outcome
\* "lease": the lease of part `failed` (1-based) fails, the parts before it
\* are counted; "technique": Technique::load_model fails, after model_count
\* moved; "submit": the submit fails, after the technique took the model.
ModelBuffer_load_model(mesh_parts, outcome, failed) ==
    LET parts == Len(mesh_parts)
        placed == IF outcome = "lease" THEN failed - 1 ELSE parts
        geoms == [k \in 1..placed |->
                  Geometry(GeometryLenAfter(geometry_len, SubSeq(mesh_parts, 1, k - 1)),
                           mesh_count + k - 1, mesh_parts[k])]
    IN  /\ mesh_count' = mesh_count + placed
        /\ geometry_len' = GeometryLenAfter(geometry_len, SubSeq(mesh_parts, 1, placed))
        /\ geometries' = geometries \o geoms
        /\ model_count' = IF outcome = "lease" THEN model_count ELSE model_count + 1
        /\ technique' = IF outcome \in {"ok", "submit"}
                        THEN Technique_load_model(technique, geoms)
                        ELSE technique

\* the Model handle load_model builds on entry and returns on success
NewModel == [mesh_idx |-> mesh_count, model_idx |-> model_count]

(* ---- insert_model_instance -------------------------------------------- *)
\* the handle numbered by the slot it is going to take
NewModelInstance_from_len == Len(model_instances)

\* line 246: ModelInstance(self.model_instance_id)
NewModelInstance == model_instance_id

ModelBuffer_insert_model_instance(model, slice, transform) ==
    LET model_instance == NewModelInstance
        index == Cardinality(DOMAIN model_instance_index)
        data == ModelInstanceData(material_array(slice), model, transform)
    IN  /\ model_instance_id' = model_instance_id + 1
        /\ issued' = Append(issued, model_instance)
        /\ UNCHANGED <<subgroup_size, gpu, passes, unitVars>>
        /\ model_instance_index' = MapInsert(model_instance_index, model_instance, index)
        /\ model_instances' = Append(model_instances, model_instance)
        /\ IF Technique_push_panics(technique, data)
           THEN /\ panicked' = "push_model_instance"
                /\ technique' =
                     IF data.model.model_idx >= Len(technique.model_mesh_count)
                     THEN Raster_push_dirty(technique)
                     ELSE Raster_push_model_instance(technique, data)
                /\ written' = written
           ELSE /\ panicked' = "no"
                /\ technique' = Technique_push_model_instance(technique, data)
                /\ written' = MapInsert(written, model_instance, data)

(* ---- remove_model_instance -------------------------------------------- *)
\* Remap without its write: the moved handle keeps its old slot
Remap_forgotten(index_map, instances, index) == index_map

\* lines 515-518: the handle now at the vacated slot is remapped to it.
\* Reading model_instances[index] panics when index is past the end.
RemapPanics(instances, index) ==
    instances # <<>> /\ index >= Len(instances)

Remap(index_map, instances, index) ==
    IF instances # <<>>
    THEN [index_map EXCEPT ![At(instances, index)] = index]
    ELSE index_map

ModelBuffer_remove_model_instance(model_instance) ==
    IF model_instance \notin LiveHandles
    THEN \* HashMap::remove(..).unwrap() on None
         /\ panicked' = "remove_unwrap"
         /\ UNCHANGED <<model_instance_index, model_instances, technique, written>>
    ELSE LET index == model_instance_index[model_instance]
             index_map == MapRemove(model_instance_index, model_instance)
             instances == SwapRemove(model_instances, index)
         IN  /\ technique' = Technique_swap_remove_model_instance(technique, index)
             /\ model_instances' = instances
             /\ IF RemapPanics(instances, index)
                THEN /\ panicked' = "remove_index"
                     /\ model_instance_index' = index_map
                ELSE /\ panicked' = "no"
                     /\ model_instance_index' = Remap(index_map, instances, index)
             /\ written' = MapRemove(written, model_instance)

(* ---- record ----------------------------------------------------------- *)
\* ModelBuffer::record, and the unwrap of its result by the caller
\* (ui/play.rs 217-225, ui/bench.rs 200-207)
ModelBuffer_record(outcome) ==
    LET r == Technique_record(technique, gpu, subgroup_size, outcome)
    IN  /\ technique' = r.t
        /\ gpu' = r.gpu
        /\ passes' = r.passes
        /\ panicked' = CASE r.result = "ok" -> "no"
                         [] r.result = "err" -> "record_unwrap"
                         [] r.result = "panic" -> "build_tlas"

(* ---- set_model_instance_* --------------------------------------------- *)
\* a lookup that lets a missing handle pass: the setter returns quietly
model_instance_mut_quiet ==
    /\ panicked' = "no"
    /\ UNCHANGED <<technique, written>>

\* model_instance_mut with a handle the index map does not hold:
\* model_instance_index[&model_instance] panics
model_instance_mut_panic ==
    /\ panicked' = "model_instance_mut"
    /\ UNCHANGED <<technique, written>>

\* the data model_instance_mut hands out for a live handle
model_instance_data(model_instance) ==
    At(technique.model_instances, model_instance_index[model_instance])

\* model_instance_mut of a live handle (the technique's index_mut), then the
\* write of `data` through the reference it returned
model_instance_mut_write(model_instance, data) ==
    LET index == model_instance_index[model_instance]
        t == Technique_index_mut(technique, index)
    IN  /\ panicked' = "no"
        /\ technique' = [t EXCEPT !.model_instances[index + 1] = data]
        /\ written' = [written EXCEPT ![model_instance] = data]

ModelBuffer_set_model_instance_material(model_instance, material_index, material) ==
    IF model_instance \notin LiveHandles
    THEN model_instance_mut_panic
    ELSE model_instance_mut_write(model_instance,
            [model_instance_data(model_instance)
                EXCEPT !.materials[material_index + 1] = material])

ModelBuffer_set_model_instance_materials(model_instance, slice) ==
    IF model_instance \notin LiveHandles
    THEN model_instance_mut_panic
    ELSE model_instance_mut_write(model_instance,
            [model_instance_data(model_instance)
                EXCEPT !.materials = material_array(slice)])

ModelBuffer_set_model_instance_transform(model_instance, transform) ==
    IF model_instance \notin LiveHandles
    THEN model_instance_mut_panic
    ELSE model_instance_mut_write(model_instance,
            [model_instance_data(model_instance)
                EXCEPT !.rotation = transform.rotation,
                       !.translation = transform.translation])

(***************************************************************************)
(* The asset loader (src/ui/loader.rs)                                     *)
(***************************************************************************)
(* ---- the archive the workers read: a fixed, small .pak ----------------- *)
BitmapIds == 1..2

\* PakBuf::bitmap_id, material_id, model_id: key to archive id
PakBitmapId(key) == IF key = "b1" THEN 1 ELSE 2

PakMaterialId(key) == IF key = "m1" THEN "M1" ELSE "M2"

PakModelId(key) == "D1"

\* PakBuf::read_material_id: M1 names its bitmaps 1 then 2, M2 names them 2
\* then 1
PakMaterial(id) ==
    IF id = "M1"
    THEN [color |-> 1, normal |-> 2, params |-> 2, emissive |-> None]
    ELSE [color |-> 2, normal |-> 1, params |-> 1, emissive |-> Some(1)]

\* PakBuf::read_model, read_model_id: the mesh parts of the model
PakModelParts(id) == MaxParts

\* the k-th mesh part of a model of the archive: position, normal, tangent
\* and texture coordinate make a vertex of 48 bytes
PakMeshPart(k) ==
    [index_count |-> 3 * k,
     vertex_len |-> 48 * (IF k % 2 = 0 THEN u16_MAX + 1 ELSE 3),
     vertex_stride |-> 48]

\* ModelBuf::meshes, flattened to parts
PakMeshParts(parts) == [k \in 1..parts |-> PakMeshPart(k)]

\* PakBuf::read_scene: the refs of the scene, each with material ids and an
\* optional model id
PakScene(key) ==
    [refs |-> << [materials |-> <<"M1">>, model |-> Some("D1")] >>]

\* PakBuf::read_bitmap_font: the number of pages of the font
PakFontPages(key) == 1

(* ---- LoadInfo ---------------------------------------------------------- *)
EmptyInfo ==
    [bitmaps |-> <<>>, fonts |-> <<>>, materials |-> <<>>, models |-> <<>>,
     scenes |-> <<>>, sounds |-> <<>>]

\* the load batches tried
Batches ==
    { [EmptyInfo EXCEPT !.materials = <<"m1", "m2">>],
      [EmptyInfo EXCEPT !.models = <<"k1">>, !.scenes = <<"s1">>,
                        !.materials = <<"m1">>],
      [EmptyInfo EXCEPT !.bitmaps = <<"b1">>, !.fonts = <<"f1">>,
                        !.sounds = <<"a1">>],
      [EmptyInfo EXCEPT !.bitmaps = <<"b1">>, !.scenes = <<"s1">>,
                        !.materials = <<"m2">>] }

Min(a, b) == IF a < b THEN a ELSE b

key_count(i) ==
    Len(i.bitmaps) + Len(i.fonts) + Len(i.materials) + Len(i.models)
        + Len(i.scenes) + Len(i.sounds)

(* ---- messages ---------------------------------------------------------- *)
Message(kind, key) == [kind |-> kind, key |-> key]

Done == Message("Done", "")

Keyed(kind, keys) == [k \in 1..Len(keys) |-> Message(kind, keys[k])]

\* the request messages in the order spawn_threads sends them
Requests(i) ==
    Keyed("Bitmap", i.bitmaps) \o Keyed("Font", i.fonts)
        \o Keyed("Model", i.models) \o Keyed("Scene", i.scenes)
        \o Keyed("Sound", i.sounds) \o Keyed("Material", i.materials)

\* Done sentinels sent ahead of the requests
Messages_done_first(i, n) == [k \in 1..n |-> Done] \o Requests(i)

\* everything spawn_threads sends: the requests, then one Done per thread
Messages(i, n) == Requests(i) \o [k \in 1..n |-> Done]

(* ---- locks ------------------------------------------------------------- *)
\* The mutexes whose guard is bound to a name and so held over several
\* statements, and the mutex of the bitmap cache map, whose guard is a
\* temporary of one statement.  The other guards that live within one
\* statement (bitmaps, fonts, scenes, sounds) are taken and dropped within
\* one step.
Lock(name, id) == <<name, id>>

EntryLock(id) == Lock("bitmap_entry", id)

MaterialsLock == Lock("materials", 0)

ModelsLock == Lock("models", 0)

ModelBufLock == Lock("model_buf", 0)

ImageLoaderLock == Lock("image_loader", 0)

BitmapBufLock == Lock("bitmap_buf", 0)

BitmapCacheLock == Lock("bitmap_cache", 0)

Locks == {EntryLock(id) : id \in BitmapIds}
            \cup {MaterialsLock, ModelsLock, ModelBufLock, ImageLoaderLock,
                  BitmapBufLock, BitmapCacheLock}

\* every guard of worker w dropped: a `?` return unwinds its scopes
Release(l, w) == [k \in DOMAIN l |-> IF l[k] = w THEN 0 ELSE l[k]]

Acquire(l, k, w) == [l EXCEPT ![k] = w]

(* ---- a worker ---------------------------------------------------------- *)
\* a worker between two requests
Idle ==
    [pc |-> "recv", msg |-> Message("", ""), id |-> "", bitmap_ids |-> <<>>,
     images |-> <<>>, scene_ref |-> 0, scene_mat |-> 0, pages |-> 0]

Workers == 1..thread_count

Exited(w) == threads[w].pc \in {"no_pak", "done", "disconnected", "failed"}

\* the material and model ids of the archive
UploadIds == {"M1", "M2", "D1"}

\* IdOrKey
Id(id) == <<"Id", id>>

Key(key) == <<"Key", key>>

\* the state before any batch: what MBSpec keeps the loader in
LoaderIdle ==
    /\ info = EmptyInfo
    /\ thread_count = 0
    /\ queue_count = 0
    /\ sent = 0
    /\ total = 0
    /\ queue = <<>>
    /\ threads = <<>>
    /\ err = FALSE
    /\ loaded = 0
    /\ locks = [k \in Locks |-> 0]
    /\ bitmap_cache = <<>>
    /\ image_loader = None
    /\ bitmap_buf = None
    /\ model_buf = None
    /\ bitmaps = <<>> /\ fonts = <<>> /\ materials = <<>>
    /\ models = <<>> /\ scenes = <<>> /\ sounds = <<>>
    /\ decodes = [id \in BitmapIds |-> 0]
    /\ uploads = [id \in UploadIds |-> <<>>]
    /\ model_buf_news = 0
    /\ queue_uses = {}
    /\ ui = [pc |-> "poll", joined |-> 0]
    /\ progress = <<>>

(* ---- the worker's control flow ----------------------------------------- *)
T(w) == threads[w]

\* worker w exists and stands at pc
AtPc(w, pc) == w \in Workers /\ threads[w].pc = pc


Goto(w, t) ==
    /\ threads' = [threads EXCEPT ![w] = t]
    /\ UNCHANGED <<err, loaded>>

\* load_material taking them the other way round
MaterialLockOrder_reversed(kind) ==
    IF kind = "Material" THEN <<ModelBufLock, MaterialsLock>>
                         ELSE <<MaterialsLock, ModelBufLock>>

\* the two locks of a material upload in the order taken, by the kind of the
\* request: load_material lines 276 and 281, load_scene lines 382 and 386
MaterialLockOrder(kind) == <<MaterialsLock, ModelBufLock>>

\* the mutex a worker standing at a lock() call is about to take
WantedLock(t) ==
    CASE t.pc = "read_image" -> BitmapCacheLock
      [] t.pc = "bitmap_entry" -> EntryLock(Head(t.bitmap_ids))
      [] t.pc = "image_loader" -> ImageLoaderLock
      [] t.pc = "font_page" -> ImageLoaderLock
      [] t.pc = "bitmap_buf" -> BitmapBufLock
      [] t.pc = "materials" -> MaterialLockOrder(t.msg.kind)[1]
      [] t.pc = "material_model_buf" -> MaterialLockOrder(t.msg.kind)[2]
      [] t.pc = "models" -> ModelsLock
      [] t.pc = "model_model_buf" -> ModelBufLock

LockPcs ==
    {"read_image", "bitmap_entry", "image_loader", "font_page", "bitmap_buf", "materials",
     "material_model_buf", "models", "model_model_buf"}

\* a named guard taken with `let guard = x.lock()`: the worker blocks until
\* the mutex is free, then owns it
LockStep(w, pc, next) ==
    /\ AtPc(w, pc)
    /\ locks[WantedLock(T(w))] = 0
    /\ locks' = Acquire(locks, WantedLock(T(w)), w)
    /\ Goto(w, [T(w) EXCEPT !.pc = next])

\* the store left out
ErrStore_skipped(e) == e

\* line 645: err.store(true)
ErrStore(e) == TRUE

\* the request returned Ok: loaded.fetch_add(1), back to recv
Ok(w) ==
    /\ threads' = [threads EXCEPT ![w] = Idle]
    /\ loaded' = loaded + 1
    /\ err' = err

\* a failed request counted like a loaded one
Fail_counted(w) ==
    /\ threads' = [threads EXCEPT ![w] = [Idle EXCEPT !.pc = "failed"]]
    /\ err' = ErrStore(err)
    /\ loaded' = loaded + 1

\* the request returned Err: the flag is set and the thread leaves its loop
Fail(w) ==
    /\ threads' = [threads EXCEPT ![w] = [Idle EXCEPT !.pc = "failed"]]
    /\ err' = ErrStore(err)
    /\ loaded' = loaded

gpuVars == <<imageVars, bitmap_buf, model_buf, uploads, model_buf_news, queue_uses,
            mbVars>>

StartPc(kind) ==
    CASE kind = "Bitmap" -> "load_bitmap"
      [] kind = "Font" -> "load_font"
      [] kind = "Material" -> "load_material"
      [] kind = "Model" -> "load_model"
      [] kind = "Scene" -> "load_scene"
      [] kind = "Sound" -> "load_sound"

\* load_scene's two loops: where the scene goes from ref r, material m
RECURSIVE SceneGoto(_, _, _)
SceneGoto(t, r, m) ==
    LET refs == PakScene(t.msg.key).refs
    IN  IF r > Len(refs)
        THEN [t EXCEPT !.pc = "scenes", !.id = "", !.scene_ref = 0, !.scene_mat = 0]
        ELSE IF m <= Len(refs[r].materials)
        THEN [t EXCEPT !.pc = "read_material", !.id = refs[r].materials[m],
                       !.scene_ref = r, !.scene_mat = m]
        ELSE IF m = Len(refs[r].materials) + 1 /\ refs[r].model # None
        THEN [t EXCEPT !.pc = "read_model_id", !.id = refs[r].model[1],
                       !.scene_ref = r, !.scene_mat = m]
        ELSE SceneGoto(t, r + 1, 1)

\* the sorted, duplicate-free bitmap ids of a material (lines 513-524)
SortedSeq(S) ==
    CHOOSE s \in [1..Cardinality(S) -> S] : \A i, j \in DOMAIN s : i < j => s[i] < s[j]

\* the sort left out: the ids in the order the HashSet drains them, which
\* is any order, here the descending one
MaterialBitmapIds_unsorted(m) ==
    LET S == {m.color, m.normal, m.params} \cup {m.emissive[k] : k \in DOMAIN m.emissive}
    IN  CHOOSE s \in [1..Cardinality(S) -> S] : \A i, j \in DOMAIN s : i < j => s[i] > s[j]

\* lines 514-524: the distinct bitmap ids of the material, sorted
MaterialBitmapIds(m) ==
    SortedSeq({m.color, m.normal, m.params}
                \cup {m.emissive[k] : k \in DOMAIN m.emissive})

\* what read_material returns from the images it collected (lines 540-545)
ReadMaterialResult(t) ==
    LET m == PakMaterial(t.id)
    IN  [color |-> t.images[m.color],
         normal |-> t.images[m.color],
         params |-> t.images[m.color],
         emissive |-> IF m.emissive = None THEN None
                      ELSE Some(t.images[m.emissive[1]])]

\* read_image returned Ok(image): load_bitmap goes on to the bitmap buffer,
\* read_material to its next bitmap id or, past the last, back to its caller
ReadImageOk(t, image) ==
    LET id == Head(t.bitmap_ids)
        rest == Tail(t.bitmap_ids)
        got == [t EXCEPT !.images = MapInsert(@, id, image), !.bitmap_ids = rest]
    IN  IF t.msg.kind = "Bitmap" THEN [got EXCEPT !.pc = "bitmap_buf"]
        ELSE IF rest # <<>> THEN [got EXCEPT !.pc = "read_image"]
        ELSE [got EXCEPT !.pc = "materials"]

\* the check left out: every request decodes
EntryIsNone_always(entry) == TRUE

\* line 465: bitmap_entry.is_none()
EntryIsNone(entry) == entry = None

\* the check left out: every upload constructs a ModelBuffer
ModelBufIsNone_always == TRUE

\* lines 283, 330, 388, 416: model_buf.is_none()
ModelBufIsNone == model_buf = None

\* the check left out: every request uploads
NeedsUpload_always(map, id) == TRUE

\* lines 280, 327, 385, 413: !map.contains_key(&id)
NeedsUpload(map, id) == id \notin DOMAIN map

(* ---- the worker thread (lines 569-651) --------------------------------- *)
\* open_pak
\* every worker submitting to the first queue
queue_index_shared(w) == 0

\* line 553: queue_index = thread_index, the threads counted from 0
queue_index(w) == w - 1

\* an upload the worker issues: decode_linear, load_bitmap, load_material
\* and load_model are handed the worker's queue_index
QueueUse(w, outcome) ==
    IF outcome = "new" THEN queue_uses
                       ELSE queue_uses \cup {<<w, queue_index(w)>>}

OpenPak(w) ==
    /\ AtPc(w, "start")
    /\ \E ok \in BOOLEAN :
          IF ok THEN Goto(w, [T(w) EXCEPT !.pc = "recv"])
          ELSE /\ threads' = [threads EXCEPT ![w].pc = "no_pak"]
               /\ err' = TRUE
               /\ loaded' = loaded
    /\ UNCHANGED <<uiVars, chanVars, locks, gpuVars, resultVars>>

\* rx.recv(): blocks on an empty channel while a Sender lives, fails once
\* spawn_threads has returned and dropped it
Recv(w) ==
    /\ AtPc(w, "recv")
    /\ IF queue = <<>>
       THEN /\ sent = Len(Messages(info, thread_count))
            /\ queue' = queue
            /\ threads' = [threads EXCEPT ![w].pc = "disconnected"]
            /\ err' = TRUE
            /\ loaded' = loaded
       ELSE /\ queue' = Tail(queue)
            /\ threads' = [threads EXCEPT ![w] =
                  IF Head(queue) = Done THEN [Idle EXCEPT !.pc = "done"]
                  ELSE [Idle EXCEPT !.pc = StartPc(Head(queue).kind),
                                    !.msg = Head(queue)]]
            /\ UNCHANGED <<err, loaded>>
    /\ UNCHANGED <<uiVars, info, thread_count, queue_count, sent, total, locks, gpuVars, resultVars>>

(* ---- read_image (lines 454-500) ---------------------------------------- *)
\* line 462, bitmap_cache.lock(): the mutex of the cache map
BitmapCacheAcquire(w) ==
    /\ LockStep(w, "read_image", "cache_entry")
    /\ UNCHANGED <<uiVars, chanVars, gpuVars, resultVars>>

\* the guard of the map living on past its statement
CacheGuardDrop_kept(l, w) == l

\* line 462: the guard of the map is a temporary of the let statement and
\* is dropped at its end, before line 463 runs
CacheGuardDrop(l, w) == [l EXCEPT ![BitmapCacheLock] = 0]

\* line 462: the entry of the id in the cache map, made on first use, and
\* its Arc cloned
ReadImageCache(w) ==
    /\ AtPc(w, "cache_entry")
    /\ LET id == Head(T(w).bitmap_ids)
       IN  bitmap_cache' = IF id \in DOMAIN bitmap_cache THEN bitmap_cache
                           ELSE MapInsert(bitmap_cache, id, None)
    /\ locks' = CacheGuardDrop(locks, w)
    /\ Goto(w, [T(w) EXCEPT !.pc = "bitmap_entry"])
    /\ UNCHANGED <<uiVars, chanVars, image_loader, decodes, bitmap_buf, model_buf,
                   uploads, model_buf_news, queue_uses, mbVars, resultVars>>

\* lines 463-466: the entry's lock; a filled entry is returned at once, an
\* empty one has the bitmap read from the archive and keeps the lock
BitmapEntry(w) ==
    /\ AtPc(w, "bitmap_entry")
    /\ LET id == Head(T(w).bitmap_ids)
       IN  /\ locks[WantedLock(T(w))] = 0
           /\ IF ~EntryIsNone(bitmap_cache[id])
              THEN /\ Goto(w, ReadImageOk(T(w), bitmap_cache[id][1]))
                   /\ locks' = locks
              ELSE \E ok \in BOOLEAN :
                      IF ok THEN /\ Goto(w, [T(w) EXCEPT !.pc = "image_loader"])
                                 /\ locks' = Acquire(locks, WantedLock(T(w)), w)
                      ELSE /\ Fail(w)
                           /\ locks' = locks
    /\ UNCHANGED <<uiVars, chanVars, gpuVars, resultVars>>

DecodeOutcomes == {"ok", "new", "decode"}

\* the image a successful decode of the bitmap id returns
Decoded(id) == [bitmap |-> id, decode |-> decodes[id] + 1]

\* line 468: image_loader.lock()
ImageLoaderAcquire(w) ==
    /\ LockStep(w, "image_loader", "decode")
    /\ UNCHANGED <<uiVars, chanVars, gpuVars, resultVars>>

\* lines 470-493: the loader made on first use, the decode, the entry filled
ImageLoaderDecode(w) ==
    /\ AtPc(w, "decode")
    /\ LET id == Head(T(w).bitmap_ids)
       IN  \E outcome \in DecodeOutcomes :
              /\ queue_uses' = QueueUse(w, outcome)
              /\ outcome = "new" => image_loader = None
              /\ image_loader' = IF outcome = "new" THEN None ELSE Some("ImageLoader")
              /\ IF outcome = "ok"
                 THEN /\ decodes' = [decodes EXCEPT ![id] = @ + 1]
                      /\ bitmap_cache' = [bitmap_cache EXCEPT ![id] = Some(Decoded(id))]
                      /\ Goto(w, ReadImageOk(T(w), Decoded(id)))
                 ELSE /\ UNCHANGED <<decodes, bitmap_cache>>
                      /\ Fail(w)
    /\ locks' = Release(locks, w)
    /\ UNCHANGED <<uiVars, chanVars, bitmap_buf, model_buf, uploads, model_buf_news,
                   mbVars, resultVars>>

(* ---- load_bitmap (lines 175-207) --------------------------------------- *)
LoadBitmap(w) ==
    /\ AtPc(w, "load_bitmap")
    /\ \E ok \in BOOLEAN :
          IF ok THEN Goto(w, [T(w) EXCEPT !.pc = "read_image",
                                  !.bitmap_ids = <<PakBitmapId(T(w).msg.key)>>])
          ELSE Fail(w)
    /\ UNCHANGED <<uiVars, chanVars, locks, gpuVars, resultVars>>

BitmapOutcomes == {"ok", "new", "load"}

\* the bitmaps a BitmapBuffer holds
BitmapCount == IF bitmap_buf = None THEN 0 ELSE bitmap_buf[1]

\* line 192: bitmap_buf.lock()
BitmapBufAcquire(w) ==
    /\ LockStep(w, "bitmap_buf", "bitmap_load")
    /\ UNCHANGED <<uiVars, chanVars, gpuVars, resultVars>>

\* lines 194-204
BitmapBuf(w) ==
    /\ AtPc(w, "bitmap_load")
    /\ \E outcome \in BitmapOutcomes :
          /\ queue_uses' = QueueUse(w, outcome)
          /\ outcome = "new" => bitmap_buf = None
          /\ bitmap_buf' = CASE outcome = "new" -> None
                             [] outcome = "load" -> Some(BitmapCount)
                             [] outcome = "ok" -> Some(BitmapCount + 1)
          /\ IF outcome = "ok"
             THEN /\ bitmaps' = MapInsert(bitmaps, T(w).msg.key,
                        [image |-> T(w).images[PakBitmapId(T(w).msg.key)],
                         index |-> BitmapCount])
                  /\ Ok(w)
             ELSE /\ bitmaps' = bitmaps
                  /\ Fail(w)
    /\ locks' = Release(locks, w)
    /\ UNCHANGED <<uiVars, chanVars, imageVars, model_buf, uploads, model_buf_news,
                   mbVars, fonts, materials, models, scenes, sounds>>

(* ---- load_font (lines 209-255) ----------------------------------------- *)
LoadFont(w) ==
    /\ AtPc(w, "load_font")
    /\ \E ok \in BOOLEAN :
          IF ok THEN Goto(w, [T(w) EXCEPT
                                !.pages = PakFontPages(T(w).msg.key),
                                !.pc = IF PakFontPages(T(w).msg.key) = 0
                                       THEN "fonts" ELSE "font_page"])
          ELSE Fail(w)
    /\ UNCHANGED <<uiVars, chanVars, locks, gpuVars, resultVars>>

\* line 222: image_loader.lock()
FontPageAcquire(w) ==
    /\ LockStep(w, "font_page", "font_decode")
    /\ UNCHANGED <<uiVars, chanVars, gpuVars, resultVars>>

\* lines 224-245: one page decoded, the guard dropped at the end of the
\* loop's body
FontPage(w) ==
    /\ AtPc(w, "font_decode")
    /\ \E outcome \in DecodeOutcomes :
          /\ queue_uses' = QueueUse(w, outcome)
          /\ outcome = "new" => image_loader = None
          /\ image_loader' = IF outcome = "new" THEN None ELSE Some("ImageLoader")
          /\ IF outcome = "ok"
             THEN Goto(w, [T(w) EXCEPT !.pages = @ - 1,
                                       !.pc = IF T(w).pages = 1 THEN "fonts"
                                                                ELSE "font_page"])
             ELSE Fail(w)
    /\ locks' = Release(locks, w)
    /\ UNCHANGED <<uiVars, chanVars, bitmap_cache, decodes, bitmap_buf, model_buf,
                   uploads, model_buf_news, mbVars, resultVars>>

\* lines 248-252: the font parsed and built, then put into the map
Fonts(w) ==
    /\ AtPc(w, "fonts")
    /\ \E ok \in BOOLEAN :
          IF ok THEN /\ fonts' = MapInsert(fonts, T(w).msg.key,
                                           PakFontPages(T(w).msg.key))
                     /\ Ok(w)
          ELSE /\ fonts' = fonts
               /\ Fail(w)
    /\ UNCHANGED <<uiVars, chanVars, locks, gpuVars, bitmaps, materials, models, scenes,
                   sounds>>

(* ---- load_sound (lines 439-452) ---------------------------------------- *)
LoadSound(w) ==
    /\ AtPc(w, "load_sound")
    /\ \E ok \in BOOLEAN :
          IF ok THEN /\ sounds' = MapInsert(sounds, T(w).msg.key, "StaticSoundData")
                     /\ Ok(w)
          ELSE /\ sounds' = sounds
               /\ Fail(w)
    /\ UNCHANGED <<uiVars, chanVars, locks, gpuVars, bitmaps, fonts, materials, models,
                   scenes>>

(* ---- load_material (lines 257-306), read_material (lines 502-546) ------ *)
\* read_material up to its loop: the material read from the archive, its
\* bitmap ids sorted
ReadMaterialStart(t, id) ==
    [t EXCEPT !.id = id, !.bitmap_ids = MaterialBitmapIds(PakMaterial(id)),
              !.images = <<>>, !.pc = "read_image"]

\* lines 268-274: material_id, then read_material
LoadMaterial_(w) ==
    /\ AtPc(w, "load_material")
    /\ \E ok \in BOOLEAN :
          IF ok THEN Goto(w, ReadMaterialStart(T(w), PakMaterialId(T(w).msg.key)))
          ELSE Fail(w)
    /\ UNCHANGED <<uiVars, chanVars, locks, gpuVars, resultVars>>

\* load_scene lines 372-380: read_material of the scene's next material id
ReadMaterial(w) ==
    /\ AtPc(w, "read_material")
    /\ \E ok \in BOOLEAN :
          IF ok THEN Goto(w, ReadMaterialStart(T(w), T(w).id))
          ELSE Fail(w)
    /\ UNCHANGED <<uiVars, chanVars, locks, gpuVars, resultVars>>

\* load_material returning without the entry of the key
MaterialDone_no_key(w, m) ==
    LET t == T(w)
    IN  IF t.msg.kind = "Material"
        THEN /\ materials' = m
             /\ Ok(w)
        ELSE /\ materials' = m
             /\ Goto(w, SceneGoto([t EXCEPT !.images = <<>>], t.scene_ref,
                                  t.scene_mat + 1))

\* the request is through with its material, whose id the map m holds:
\* load_material lines 299-305 adds the key and returns Ok, load_scene goes on
MaterialDone(w, m) ==
    LET t == T(w)
    IN  IF t.msg.kind = "Material"
        THEN /\ materials' = IF Key(t.msg.key) \in DOMAIN m THEN m
                             ELSE MapInsert(m, Key(t.msg.key), m[Id(t.id)])
             /\ Ok(w)
        ELSE /\ materials' = m
             /\ Goto(w, SceneGoto([t EXCEPT !.images = <<>>], t.scene_ref,
                                  t.scene_mat + 1))

\* the first lock of the upload and the contains_key check
MaterialsAcquire(w) ==
    /\ AtPc(w, "materials")
    /\ locks[WantedLock(T(w))] = 0
    /\ IF NeedsUpload(materials, Id(T(w).id))
       THEN /\ locks' = Acquire(locks, WantedLock(T(w)), w)
            /\ Goto(w, [T(w) EXCEPT !.pc = "material_model_buf"])
            /\ materials' = materials
       ELSE /\ locks' = locks
            /\ MaterialDone(w, materials)
    /\ UNCHANGED <<uiVars, chanVars, gpuVars, bitmaps, fonts, models, scenes, sounds>>

\* the second lock
MaterialModelBuf(w) ==
    /\ LockStep(w, "material_model_buf", "material_upload")
    /\ UNCHANGED <<uiVars, chanVars, gpuVars, resultVars>>

MaterialOutcomes == {"new", "ok", "submit"}

\* lines 283-297: the ModelBuffer made on first use, the material uploaded
\* and entered under its id
MaterialUpload(w) ==
    /\ AtPc(w, "material_upload")
    /\ LET t == T(w)
           tex == ReadMaterialResult(t)
           material == material_count
       IN  \E outcome \in MaterialOutcomes :
              /\ queue_uses' = QueueUse(w, outcome)
              /\ outcome = "new" => ModelBufIsNone
              /\ IF outcome = "new"
                 THEN UNCHANGED <<model_buf, model_buf_news, textures, material_count>>
                 ELSE /\ model_buf' = Some("ModelBuffer")
                      /\ model_buf_news' = IF ModelBufIsNone THEN model_buf_news + 1
                                                             ELSE model_buf_news
                      /\ ModelBuffer_load_material(tex.color, tex.normal, tex.params,
                                                   tex.emissive, outcome)
              /\ IF outcome = "ok"
                 THEN /\ uploads' = [uploads EXCEPT ![t.id] = Append(@, material)]
                      /\ MaterialDone(w, MapInsert(materials, Id(t.id), material))
                 ELSE /\ uploads' = uploads
                      /\ materials' = materials
                      /\ Fail(w)
    /\ locks' = Release(locks, w)
    /\ UNCHANGED <<uiVars, chanVars, imageVars, bitmap_buf, bitmaps, fonts, models, scenes,
                   sounds, mesh_count, geometry_len, geometries, model_count, model_instance_id, issued, subgroup_size, gpu, passes, unitVars,
                   model_instance_index, model_instances, technique,
                   loaded_models, panicked, written>>

(* ---- load_model (lines 308-353) ---------------------------------------- *)
\* lines 317-321: model_id, read_model
LoadModel_(w) ==
    /\ AtPc(w, "load_model")
    /\ \E ok \in BOOLEAN :
          IF ok THEN Goto(w, [T(w) EXCEPT !.pc = "models",
                                          !.id = PakModelId(T(w).msg.key)])
          ELSE Fail(w)
    /\ UNCHANGED <<uiVars, chanVars, locks, gpuVars, resultVars>>

\* load_scene lines 405-408: read_model_id of the ref's model
ReadModelId(w) ==
    /\ AtPc(w, "read_model_id")
    /\ \E ok \in BOOLEAN :
          IF ok THEN Goto(w, [T(w) EXCEPT !.pc = "models"])
          ELSE Fail(w)
    /\ UNCHANGED <<uiVars, chanVars, locks, gpuVars, resultVars>>

\* the request is through with its model: load_model lines 346-352 adds the
\* key and returns Ok, load_scene goes on to its next ref
ModelDone(w, m) ==
    LET t == T(w)
    IN  IF t.msg.kind = "Model"
        THEN /\ models' = IF Key(t.msg.key) \in DOMAIN m THEN m
                          ELSE MapInsert(m, Key(t.msg.key), m[Id(t.id)])
             /\ Ok(w)
        ELSE /\ models' = m
             /\ Goto(w, SceneGoto(t, t.scene_ref + 1, 1))

\* models.lock() and the contains_key check
ModelsAcquire(w) ==
    /\ AtPc(w, "models")
    /\ locks[WantedLock(T(w))] = 0
    /\ IF NeedsUpload(models, Id(T(w).id))
       THEN /\ locks' = Acquire(locks, WantedLock(T(w)), w)
            /\ Goto(w, [T(w) EXCEPT !.pc = "model_model_buf"])
            /\ models' = models
       ELSE /\ locks' = locks
            /\ ModelDone(w, models)
    /\ UNCHANGED <<uiVars, chanVars, gpuVars, bitmaps, fonts, materials, scenes, sounds>>

\* model_buf.lock()
ModelModelBuf(w) ==
    /\ LockStep(w, "model_model_buf", "model_upload")
    /\ UNCHANGED <<uiVars, chanVars, gpuVars, resultVars>>

ModelOutcomes == {"new"} \cup LoadOutcomes

\* lines 330-343: the ModelBuffer made on first use, the model uploaded and
\* entered under its id
ModelUpload(w) ==
    /\ AtPc(w, "model_upload")
    /\ LET t == T(w)
           parts == PakModelParts(t.id)
           model == NewModel
       IN  \E outcome \in ModelOutcomes :
              /\ queue_uses' = QueueUse(w, outcome)
              /\ outcome = "new" => ModelBufIsNone
              /\ IF outcome = "new"
                 THEN UNCHANGED <<model_buf, model_buf_news, mesh_count, geometry_len, geometries,
                                  model_count, technique>>
                 ELSE /\ model_buf' = Some("ModelBuffer")
                      /\ model_buf_news' = IF ModelBufIsNone THEN model_buf_news + 1
                                                             ELSE model_buf_news
                      /\ ModelBuffer_load_model(PakMeshParts(parts), outcome, parts)
              /\ IF outcome = "ok"
                 THEN /\ uploads' = [uploads EXCEPT ![t.id] = Append(@, model)]
                      /\ ModelDone(w, MapInsert(models, Id(t.id), model))
                 ELSE /\ uploads' = uploads
                      /\ models' = models
                      /\ Fail(w)
    /\ locks' = Release(locks, w)
    /\ UNCHANGED <<uiVars, chanVars, imageVars, bitmap_buf, bitmaps, fonts, materials,
                   scenes, sounds, material_count, textures, model_instance_id, issued, subgroup_size, gpu, passes, unitVars,
                   model_instance_index, model_instances, loaded_models,
                   panicked, written>>

(* ---- load_scene (lines 355-437) ---------------------------------------- *)
\* line 368: read_scene
LoadScene(w) ==
    /\ AtPc(w, "load_scene")
    /\ \E ok \in BOOLEAN :
          IF ok THEN Goto(w, SceneGoto(T(w), 1, 1))
          ELSE Fail(w)
    /\ UNCHANGED <<uiVars, chanVars, locks, gpuVars, resultVars>>

\* line 434
Scenes(w) ==
    /\ AtPc(w, "scenes")
    /\ scenes' = MapInsert(scenes, T(w).msg.key, PakScene(T(w).msg.key))
    /\ Ok(w)
    /\ UNCHANGED <<uiVars, chanVars, locks, gpuVars, bitmaps, fonts, materials, models,
                   sounds>>

(* ---- spawn_threads ----------------------------------------------------- *)
\* lines 654-688: the next message sent
Send ==
    /\ sent < Len(Messages(info, thread_count))
    /\ queue' = Append(queue, Messages(info, thread_count)[sent + 1])
    /\ sent' = sent + 1
    /\ total' = IF Messages(info, thread_count)[sent + 1] = Done THEN total
                                                                 ELSE total + 1
    /\ UNCHANGED <<uiVars, info, thread_count, queue_count, threads, err, loaded, locks, gpuVars,
                   resultVars>>

\* spawn_threads has returned the Loader
Spawned == sent = Len(Messages(info, thread_count))

\* Operation::is_done, is_err (lines 714-721)
is_done == loaded = total

is_err == err

\* line 159: key_count.min(queue_count)
ThreadCount(keys, queues) == Min(keys, queues)

Worker(w) ==
       \/ OpenPak(w)
       \/ Recv(w)
       \/ BitmapCacheAcquire(w)
       \/ ReadImageCache(w)
       \/ BitmapEntry(w)
       \/ ImageLoaderAcquire(w)
       \/ ImageLoaderDecode(w)
       \/ LoadBitmap(w)
       \/ BitmapBufAcquire(w)
       \/ BitmapBuf(w)
       \/ LoadFont(w)
       \/ FontPageAcquire(w)
       \/ FontPage(w)
       \/ Fonts(w)
       \/ LoadSound(w)
       \/ LoadMaterial_(w)
       \/ ReadMaterial(w)
       \/ MaterialsAcquire(w)
       \/ MaterialModelBuf(w)
       \/ MaterialUpload(w)
       \/ LoadModel_(w)
       \/ ReadModelId(w)
       \/ ModelsAcquire(w)
       \/ ModelModelBuf(w)
       \/ ModelUpload(w)
       \/ LoadScene(w)
       \/ Scenes(w)

\* the state once the threads are spawned (line 652), no message sent yet
LoaderInit ==
    /\ info \in Batches
    /\ queue_count \in 1..MaxQueues
    /\ thread_count = ThreadCount(key_count(info), queue_count)
    /\ sent = 0
    /\ total = 0
    /\ queue = <<>>
    /\ threads = [w \in 1..thread_count |-> [Idle EXCEPT !.pc = "start"]]
    /\ err = FALSE
    /\ loaded = 0
    /\ locks = [k \in Locks |-> 0]
    /\ bitmap_cache = <<>>
    /\ image_loader = None
    /\ bitmap_buf = None
    /\ model_buf = None
    /\ bitmaps = <<>> /\ fonts = <<>> /\ materials = <<>>
    /\ models = <<>> /\ scenes = <<>> /\ sounds = <<>>
    /\ decodes = [id \in BitmapIds |-> 0]
    /\ uploads = [id \in UploadIds |-> <<>>]
    /\ model_buf_news = 0
    /\ queue_uses = {}
    /\ ui = [pc |-> "poll", joined |-> 0]
    /\ progress = <<>>
    \* model_buf is None: the ModelBuffer fields hold what ModelBuffer::new,
    \* which runs on a None only, is going to set
    /\ \E kind \in Techniques : ModelBuffer_new(kind)
    /\ subgroup_size = 2 ^ MaxSubgroupLog
    /\ UnitIdle
    /\ loaded_models = {}
    /\ panicked = "no"
    /\ written = <<>>

LoaderNext ==
    \/ Send
    \/ \E w \in 1..MaxQueues : Worker(w)

LoaderSpec == LoaderInit /\ [][LoaderNext]_vars

\* OS threads: the spawning thread and every worker keep being scheduled
LoaderLive ==
    /\ LoaderSpec
    /\ WF_vars(Send)
    /\ \A w \in 1..MaxQueues : WF_vars(Worker(w))

(***************************************************************************)
(* UiSpec: a screen (Boot, Title, Menu, the benchmark boot) polling the    *)
(* Loader of the batch while the workers run                               *)
(***************************************************************************)
\* the Loader handle: returned by spawn_threads, consumed by unwrap, lost
\* when the screen that holds it panics or is dropped
HandleAlive == Spawned /\ ui.pc \in {"poll", "is_done", "unwrap", "join"}

\* update, first read: `if loader.is_err() { panic!() }`
UpdateIsErr ==
    /\ Spawned
    /\ ui.pc = "poll"
    /\ ui' = [ui EXCEPT !.pc = IF is_err THEN "panic" ELSE "is_done"]
    /\ UNCHANGED <<progress, chanVars, threads, err, loaded, locks, gpuVars,
                   resultVars>>

\* update, second read: `if loader.is_done()` calls unwrap, else the screen
\* is handed back for the next frame
UpdateIsDone ==
    /\ ui.pc = "is_done"
    /\ ui' = [ui EXCEPT !.pc = IF is_done THEN "unwrap" ELSE "poll"]
    /\ UNCHANGED <<progress, chanVars, threads, err, loaded, locks, gpuVars,
                   resultVars>>

\* lines 724-725: the two debug_assert!s, compiled in debug builds only
Unwrap ==
    /\ ui.pc = "unwrap"
    /\ \E debug_assertions \in BOOLEAN :
          ui' = [ui EXCEPT !.pc = IF debug_assertions /\ (is_err \/ ~is_done)
                                  THEN "panic" ELSE "join"]
    /\ UNCHANGED <<progress, chanVars, threads, err, loaded, locks, gpuVars,
                   resultVars>>

\* join() without waiting for the thread
JoinReturns_at_once(w) == TRUE

\* JoinHandle::join returns once the thread has finished
JoinReturns(w) == Exited(w)

\* lines 727-729: the threads are joined in spawn order, then the result
\* is built
Join ==
    /\ ui.pc = "join"
    /\ IF ui.joined < thread_count
       THEN /\ JoinReturns(ui.joined + 1)
            /\ ui' = [ui EXCEPT !.joined = @ + 1]
       ELSE ui' = [ui EXCEPT !.pc = "done"]
    /\ UNCHANGED <<progress, chanVars, threads, err, loaded, locks, gpuVars,
                   resultVars>>

\* the screen goes away with its loader still polled (Title::update and
\* Menu::update return None on Escape): Loader has no Drop, its JoinHandles
\* are dropped, which detaches the threads
Drop ==
    /\ Spawned
    /\ ui.pc = "poll"
    /\ ui' = [ui EXCEPT !.pc = "dropped"]
    /\ UNCHANGED <<progress, chanVars, threads, err, loaded, locks, gpuVars,
                   resultVars>>

\* progress() reporting what is left instead of what is loaded
Loader_progress_remaining ==
    [loaded |-> total - Min(loaded, total), total |-> IF total > 1 THEN total ELSE 1]

\* lines 708-712: loaded.min(total) over total.max(1)
Loader_progress ==
    [loaded |-> Min(loaded, total), total |-> IF total > 1 THEN total ELSE 1]

\* draw reads progress() (bench.rs:37)
Progress ==
    /\ HandleAlive
    /\ ui.pc = "poll"
    /\ progress' = Some(Loader_progress)
    /\ UNCHANGED <<ui, chanVars, threads, err, loaded, locks, gpuVars,
                   resultVars>>

UiNext ==
    \/ Send
    \/ \E w \in 1..MaxQueues : Worker(w)
    \/ UpdateIsErr
    \/ UpdateIsDone
    \/ Unwrap
    \/ Join
    \/ Drop
    \/ Progress

UiSpec == LoaderInit /\ [][UiNext]_vars

(***************************************************************************)
(* MBSpec: gameplay code driving one ModelBuffer                           *)
(***************************************************************************)
\* the images handed to load_material: one per texture role
Image(role) == [role |-> role]

ModelInstances == 0..(MaxInstanceId - 1)

\* the material slots set_model_instance_material is tried on
MaterialSlots == {MAX_MATERIALS_PER_MODEL - 1}

MBInit ==
    /\ \E kind \in Techniques : ModelBuffer_new(kind)
    /\ subgroup_size = 2 ^ MaxSubgroupLog
    /\ UnitIdle
    /\ loaded_models = {}
    /\ panicked = "no"
    /\ written = <<>>
    /\ LoaderIdle

LoadMaterial ==
    /\ panicked = "no"
    /\ UNCHANGED ldVars
    /\ material_count < MaxMaterials
    /\ ModelBuffer_load_material(Image("color"), Image("normal"), Image("params"),
                                 <<Image("emissive")>>, "ok")
    /\ UNCHANGED <<mesh_count, geometry_len, geometries, model_count, model_instance_id, issued, subgroup_size, gpu, passes, unitVars, model_instance_index,
                   model_instances, technique, loaded_models, panicked, written>>

LoadModel ==
    /\ panicked = "no"
    /\ UNCHANGED ldVars
    /\ model_count < MaxModels
    /\ mesh_count < MaxModels * MaxParts
    /\ \E parts \in 1..MaxParts, outcome \in LoadOutcomes, failed \in 1..MaxParts :
          /\ failed <= parts
          /\ outcome # "lease" => failed = 1
          /\ ModelBuffer_load_model(PakMeshParts(parts), outcome, failed)
          /\ loaded_models' = IF outcome = "ok" THEN loaded_models \cup {NewModel}
                                                ELSE loaded_models
    /\ UNCHANGED <<material_count, model_instance_id, issued, subgroup_size, gpu, passes, unitVars, model_instance_index,
                   model_instances, textures, panicked, written>>

InsertModelInstance ==
    /\ panicked = "no"
    /\ UNCHANGED ldVars
    /\ model_instance_id < MaxInstanceId
    /\ \E model \in loaded_models, slice \in MaterialSlices, transform \in Transforms :
          ModelBuffer_insert_model_instance(model, slice, transform)
    /\ UNCHANGED <<material_count, mesh_count, geometry_len, geometries, model_count, textures, loaded_models>>

RemoveModelInstance ==
    /\ panicked = "no"
    /\ UNCHANGED ldVars
    /\ \E model_instance \in ModelInstances :
          ModelBuffer_remove_model_instance(model_instance)
    /\ UNCHANGED <<material_count, mesh_count, geometry_len, geometries, model_count, model_instance_id, issued, subgroup_size, gpu, passes, unitVars,
                   textures, loaded_models>>

SetModelInstanceMaterial ==
    /\ panicked = "no"
    /\ UNCHANGED ldVars
    /\ \E model_instance \in ModelInstances, material_index \in MaterialSlots,
          material \in Materials :
          ModelBuffer_set_model_instance_material(model_instance, material_index, material)
    /\ UNCHANGED <<material_count, mesh_count, geometry_len, geometries, model_count, model_instance_id, issued, subgroup_size, gpu, passes, unitVars,
                   model_instance_index, model_instances, textures, loaded_models>>

SetModelInstanceMaterials ==
    /\ panicked = "no"
    /\ UNCHANGED ldVars
    /\ \E model_instance \in ModelInstances, slice \in MaterialSlices :
          ModelBuffer_set_model_instance_materials(model_instance, slice)
    /\ UNCHANGED <<material_count, mesh_count, geometry_len, geometries, model_count, model_instance_id, issued, subgroup_size, gpu, passes, unitVars,
                   model_instance_index, model_instances, textures, loaded_models>>

SetModelInstanceTransform ==
    /\ panicked = "no"
    /\ UNCHANGED ldVars
    /\ \E model_instance \in ModelInstances, transform \in Transforms :
          ModelBuffer_set_model_instance_transform(model_instance, transform)
    /\ UNCHANGED <<material_count, mesh_count, geometry_len, geometries, model_count, model_instance_id, issued, subgroup_size, gpu, passes, unitVars,
                   model_instance_index, model_instances, textures, loaded_models>>

MBNext ==
    \/ LoadMaterial
    \/ LoadModel
    \/ InsertModelInstance
    \/ RemoveModelInstance
    \/ SetModelInstanceMaterial
    \/ SetModelInstanceMaterials
    \/ SetModelInstanceTransform

MBSpec == MBInit /\ [][MBNext]_vars

(***************************************************************************)
(* RecordSpec: the ModelBuffer as the program drives it. The loader fills  *)
(* it (ui/loader.rs is the one caller of load_material and load_model, and *)
(* the program panics on a loader error); then Play or Bench inserts,      *)
(* removes, sets and records frames, on a device of any subgroup size.     *)
(***************************************************************************)
SubgroupSizes == {2 ^ k : k \in 0..MaxSubgroupLog}

RecordInit ==
    /\ \E kind \in Techniques :
          /\ ModelBuffer_new(kind)
          \* the ray-trace technique never reads the subgroup size
          /\ subgroup_size \in IF kind = "Raster" THEN SubgroupSizes
                                                  ELSE {2 ^ MaxSubgroupLog}
    /\ UnitIdle
    /\ loaded_models = {}
    /\ panicked = "no"
    /\ written = <<>>
    /\ LoaderIdle

\* the loader has not handed the ModelBuffer over yet
Loading == model_instance_id = 0 /\ passes = <<>>

LoaderLoadMaterial ==
    /\ Loading
    /\ material_count < MaxFrameMaterials
    /\ LoadMaterial

\* a load_model that returned Ok: the batch goes on
LoaderLoadModel ==
    /\ Loading
    /\ panicked = "no"
    /\ UNCHANGED ldVars
    /\ model_count < MaxModels
    /\ \E parts \in 1..MaxParts :
          /\ ModelBuffer_load_model(PakMeshParts(parts), "ok", 1)
          /\ loaded_models' = loaded_models \cup {NewModel}
    /\ UNCHANGED <<material_count, model_instance_id, issued, subgroup_size, gpu, passes, unitVars,
                   model_instance_index, model_instances, textures, panicked, written>>

Record ==
    /\ panicked = "no"
    /\ UNCHANGED ldVars
    /\ technique.kind = "RayTrace" => technique.frame_idx < MaxFrames
    /\ \E outcome \in Technique_record_outcomes(technique) : ModelBuffer_record(outcome)
    /\ UNCHANGED <<material_count, mesh_count, geometry_len, geometries, model_count,
                   model_instance_id, issued, subgroup_size, unitVars,
                   model_instance_index, model_instances, textures, loaded_models, written>>

RecordNext ==
    \/ LoaderLoadMaterial
    \/ LoaderLoadModel
    \/ InsertModelInstance
    \/ RemoveModelInstance
    \/ SetModelInstanceMaterial
    \/ SetModelInstanceMaterials
    \/ SetModelInstanceTransform
    \/ Record

RecordSpec == RecordInit /\ [][RecordNext]_vars

(***************************************************************************)
(* GeomSpec: models of any mesh parts loaded into one ModelBuffer          *)
(***************************************************************************)
\* mesh parts around the 16-bit limit, 48 bytes a vertex
MeshParts ==
    [index_count : {3, 6},
     vertex_len : {48 * 3, 48 * u16_MAX, 48 * (u16_MAX + 1)},
     vertex_stride : {48}]

MeshPartSeqs == UNION {[1..n -> MeshParts] : n \in 1..MaxParts}

LoadModelParts ==
    /\ panicked = "no"
    /\ UNCHANGED ldVars
    /\ \E mesh_parts \in MeshPartSeqs, outcome \in LoadOutcomes, failed \in 1..MaxParts :
          /\ mesh_count + Len(mesh_parts) <= MaxMeshes
          /\ failed <= Len(mesh_parts)
          /\ outcome # "lease" => failed = 1
          /\ ModelBuffer_load_model(mesh_parts, outcome, failed)
          /\ loaded_models' = IF outcome = "ok" THEN loaded_models \cup {NewModel}
                                                ELSE loaded_models
    /\ UNCHANGED <<material_count, model_instance_id, issued, subgroup_size, gpu, passes, unitVars, model_instance_index,
                   model_instances, textures, panicked, written>>

GeomSpec == MBInit /\ [][LoadModelParts]_vars

(***************************************************************************)
(* Claims about the ModelBuffer, under MBSpec                              *)
(***************************************************************************)
\* what a step of remove_model_instance of a live handle looks like: the
\* handle array shrinks.  RemovedHandle is the handle it was given, RemovedSlot
\* the slot that handle had, FormerLast the handle of the last slot.
IsRemoveStep == Len(model_instances') = Len(model_instances) - 1

RemovedHandle == CHOOSE h \in LiveHandles : h \notin DOMAIN model_instance_index'

RemovedSlot == model_instance_index[RemovedHandle]

LastSlot == Len(model_instances) - 1

FormerLast == At(model_instances, LastSlot)

\* C1: after every insert_model_instance and remove_model_instance that
\* returns, the index map and the handle array have the same number of
\* entries, every live handle maps to a distinct slot below that number, and
\* the handle stored at that slot is the handle itself.
C1_IndexMapMatchesInstances ==
    panicked = "no" =>
        /\ Cardinality(LiveHandles) = Len(model_instances)
        /\ \A h \in LiveHandles :
              /\ model_instance_index[h] \in 0..(Len(model_instances) - 1)
              /\ At(model_instances, model_instance_index[h]) = h
        /\ \A g, h \in LiveHandles :
              g # h => model_instance_index[g] # model_instance_index[h]

\* a removal has returned and left two live instances behind
C1_Witness ==
    /\ panicked = "no"
    /\ Cardinality(LiveHandles) = 2
    /\ model_instance_id = 3

\* C2: a live handle resolves, through the index map, to the technique slot
\* holding the model, materials and transform last written for that handle,
\* whatever was inserted, removed or written for other handles since.
C2_HandleResolvesToLastWritten ==
    panicked = "no" =>
        /\ DOMAIN written = LiveHandles
        /\ \A h \in LiveHandles :
              /\ model_instance_index[h] < Len(technique.model_instances)
              /\ At(technique.model_instances, model_instance_index[h]) = written[h]

\* two live instances with different data, the later-inserted one relocated
\* in front of the earlier one by a removal, the earlier one written by
\* set_model_instance_material since
C2_Witness ==
    /\ panicked = "no"
    /\ \E g, h \in LiveHandles :
          /\ g < h
          /\ model_instance_index[g] > model_instance_index[h]
          /\ written[g] # written[h]
          /\ written[g].materials[MAX_MATERIALS_PER_MODEL] # written[g].materials[1]

\* C3: remove_model_instance of the instance at a slot i that is not the last
\* slot returns, moves the former-last instance into slot i of the handle
\* array and of the technique's data array, remaps its handle to i, shrinks
\* both arrays by one and leaves every other slot and mapping unchanged.
C3_RemoveRelocatesLast ==
    [][(IsRemoveStep /\ RemovedSlot < LastSlot) =>
        /\ panicked' = "no"
        /\ Len(model_instances') = Len(model_instances) - 1
        /\ Len(technique'.model_instances) = Len(technique.model_instances) - 1
        /\ At(model_instances', RemovedSlot) = FormerLast
        /\ At(technique'.model_instances, RemovedSlot)
              = At(technique.model_instances, LastSlot)
        /\ DOMAIN model_instance_index' = LiveHandles \ {RemovedHandle}
        /\ model_instance_index'[FormerLast] = RemovedSlot
        /\ \A h \in LiveHandles \ {RemovedHandle, FormerLast} :
              model_instance_index'[h] = model_instance_index[h]
        /\ \A j \in 0..(LastSlot - 1) :
              j # RemovedSlot =>
                /\ At(model_instances', j) = At(model_instances, j)
                /\ At(technique'.model_instances, j) = At(technique.model_instances, j)
      ]_vars

\* a removal at slot 0 of three has put the last-inserted instance in front
\* of the one inserted before it
C3_Witness ==
    /\ panicked = "no"
    /\ model_instances = <<2, 1>>
    /\ model_instance_index[2] = 0

\* C4: remove_model_instance of the instance in the last slot, while another
\* instance remains, returns, shrinks the arrays by one and neither
\* relocates nor remaps any other instance.
C4_RemoveLastReturns ==
    [][(IsRemoveStep /\ RemovedSlot = LastSlot /\ LastSlot >= 1) =>
        /\ panicked' = "no"
        /\ Len(model_instances') = Len(model_instances) - 1
        /\ Len(technique'.model_instances) = Len(technique.model_instances) - 1
        /\ \A h \in LiveHandles \ {RemovedHandle} :
              model_instance_index'[h] = model_instance_index[h]
        /\ \A j \in 0..(LastSlot - 1) :
              /\ At(model_instances', j) = At(model_instances, j)
              /\ At(technique'.model_instances, j) = At(technique.model_instances, j)
      ]_vars

\* remove_model_instance of the handle in the last of two slots has stopped
\* at its read of model_instances[index], one instance left
C4_Witness ==
    /\ panicked = "remove_index"
    /\ Len(model_instances) = 1
    /\ Cardinality(LiveHandles) = 1

(***************************************************************************)
(* Claims about the loader, under LoaderSpec and LoaderLive                *)
(***************************************************************************)
\* worker w stands at a lock() call on a mutex another worker, or itself,
\* owns; WaitsFor(w) is that owner
Blocked(w) ==
    /\ threads[w].pc \in LockPcs
    /\ locks[WantedLock(threads[w])] # 0

WaitsFor(w) == locks[WantedLock(threads[w])]

\* following the owners from w for at most k hops ends at a worker that is
\* running: neither blocked nor gone
RECURSIVE EndsAtRunning(_, _)
EndsAtRunning(w, k) ==
    IF ~Blocked(w) THEN ~Exited(w)
    ELSE IF k = 0 THEN FALSE
    ELSE EndsAtRunning(WaitsFor(w), k - 1)

\* C5: no interleaving of the workers deadlocks.  Whatever requests are in
\* progress, a worker that waits for a mutex waits for a worker that is
\* running or that itself waits, through a chain without a cycle, for a
\* running one: no set of workers waits cyclically on the per-bitmap,
\* image-loader, bitmap-buffer, result-map or ModelBuffer locks.
C5_NoCyclicWait ==
    \A w \in Workers : Blocked(w) => EndsAtRunning(WaitsFor(w), thread_count)

\* the worker reading material M1 (bitmaps 1, 2) waits for the entry of a
\* bitmap that the worker reading M2 (bitmaps 2, 1) has locked
C5_Witness ==
    \E v, w \in Workers :
        /\ Blocked(v)
        /\ WaitsFor(v) = w
        /\ threads[v].pc = "bitmap_entry"
        /\ threads[v].id = "M1"
        /\ threads[w].id = "M2"

\* the images of bitmap id that workers hold, the ModelBuffer's textures
\* made of it and the Bitmaps loaded from it
ImagesOf(id) ==
    {threads[w].images[id] : w \in {v \in Workers : id \in DOMAIN threads[v].images}}
        \cup {textures[k] : k \in {j \in DOMAIN textures : textures[j].bitmap = id}}
        \cup {bitmaps[k].image : k \in {j \in DOMAIN bitmaps : bitmaps[j].image.bitmap = id}}

\* C6: within a batch a bitmap id is read and decoded successfully at most
\* once, however many materials, scenes and bitmap keys ask for it on
\* whichever workers: the entry then holds that one image for good and every
\* request gets exactly it.
C6_DecodedOnce ==
    \A id \in BitmapIds :
        /\ decodes[id] <= 1
        /\ decodes[id] = 1 =>
              /\ id \in DOMAIN bitmap_cache
              /\ bitmap_cache[id] = Some([bitmap |-> id, decode |-> 1])
        /\ (decodes[id] = 0 /\ id \in DOMAIN bitmap_cache) =>
              bitmap_cache[id] = None
        /\ ImagesOf(id) \subseteq {[bitmap |-> id, decode |-> 1]}

\* bitmap 1 was asked for by the bitmap key, by the scene's material and by
\* the material key, and all three got their image
C6_Witness ==
    /\ "b1" \in DOMAIN bitmaps
    /\ material_count = 2
    /\ decodes[1] = 1

AllExited == \A w \in Workers : Exited(w)

DonesQueued == Cardinality({k \in DOMAIN queue : queue[k] = Done})

DonesReceived == Cardinality({w \in Workers : threads[w].pc = "done"})

RequestsQueued == {k \in DOMAIN queue : queue[k] # Done}

\* C8: one Done per worker is sent, all of them after every request; the
\* channel being first in first out, a worker that has received Done has left
\* no request behind: every request was sent and received before.
C8_DoneAfterRequests ==
    /\ DonesQueued + DonesReceived <= thread_count
    /\ Spawned => DonesQueued + DonesReceived = thread_count
    /\ \A j, k \in DOMAIN queue : (j < k /\ queue[j] = Done) => queue[k] = Done
    /\ \A w \in Workers :
          threads[w].pc = "done" =>
              /\ total = key_count(info)
              /\ RequestsQueued = {}

\* a worker left on an error at its first request; the other one received
\* the two requests left and then its Done
C8_Witness ==
    /\ total = 3
    /\ loaded = 2
    /\ \E v, w \in Workers : threads[v].pc = "failed" /\ threads[w].pc = "done"

\* the keys of the batch whose entry the map holds
KeysIn(map) == {k \in DOMAIN map : k[1] = "Key"}

\* C9: a material id and a model id are uploaded to the ModelBuffer at most
\* once per batch, whether asked for by key or by a scene; the id entry of
\* the result map is the handle that one upload returned, and a key entry is
\* the handle of its id entry.
C9_UploadedOnce ==
    /\ \A id \in UploadIds : Len(uploads[id]) <= 1
    /\ \A id \in UploadIds :
          /\ Id(id) \in DOMAIN materials => uploads[id] = <<materials[Id(id)]>>
          /\ Id(id) \in DOMAIN models => uploads[id] = <<models[Id(id)]>>
    /\ \A k \in KeysIn(materials) :
          /\ Id(PakMaterialId(k[2])) \in DOMAIN materials
          /\ materials[k] = materials[Id(PakMaterialId(k[2]))]
    /\ \A k \in KeysIn(models) :
          /\ Id(PakModelId(k[2])) \in DOMAIN models
          /\ models[k] = models[Id(PakModelId(k[2]))]

\* material M1 and model D1 were asked for by key and by the scene, and all
\* three requests are through
C9_Witness ==
    /\ Key("m1") \in DOMAIN materials
    /\ Key("k1") \in DOMAIN models
    /\ "s1" \in DOMAIN scenes
    /\ uploads["M1"] = <<materials[Key("m1")]>>
    /\ uploads["D1"] = <<models[Key("k1")]>>

\* a step that writes the ModelBuffer or the Option holding it
WritesModelBuf ==
    \/ model_buf' # model_buf
    \/ textures' # textures
    \/ material_count' # material_count
    \/ mesh_count' # mesh_count
    \/ model_count' # model_count
    \/ technique' # technique

\* C10: at most one ModelBuffer is constructed in a batch, however many
\* workers race for the first upload, and every material and model upload
\* is made into it by the worker that holds its lock at that time.
C10_OneModelBuffer ==
    [][/\ model_buf_news' <= 1
       /\ model_buf' = None <=> model_buf_news' = 0
       /\ WritesModelBuf =>
             \E w \in Workers :
                /\ locks[ModelBufLock] = w
                /\ threads[w].pc \in {"material_upload", "model_upload"}
                /\ threads'[w] # threads[w]
                /\ model_buf' = Some("ModelBuffer")
       /\ material_count' = Len(uploads'["M1"]) + Len(uploads'["M2"])
      ]_vars

\* the ModelBuffer exists and holds an upload; a worker is uploading into it
\* under the lock while another one waits for the lock
C10_Witness ==
    /\ model_buf_news = 1
    /\ material_count + model_count >= 1
    /\ \E v, w \in Workers :
          /\ threads[v].pc \in {"material_upload", "model_upload"}
          /\ locks[ModelBufLock] = v
          /\ Blocked(w)
          /\ WaitsFor(w) = v


(***************************************************************************)
(* Claims about the polling caller (checked under UiSpec)                  *)
(***************************************************************************)
\* the step of update that calls unwrap
EntersUnwrap == ui.pc = "is_done" /\ ui'.pc = "unwrap"

\* C11: a caller enters unwrap() only in an update in which it has read
\* is_err() false and then is_done() true, so at the entry the load is
\* neither errored nor incomplete
C11_UnwrapOnlyWhenLoaded ==
    [][EntersUnwrap => (~is_err /\ is_done)]_vars

\* unwrap has been entered, after both reads, on a batch whose flag is set
C11_Witness == ui.pc = "unwrap" /\ is_err /\ is_done

\* the Loader handle exists no more
HandleGone == Spawned /\ ui.pc \in {"done", "panic", "dropped"}

\* C12 as stated: whenever the Loader handle has gone away, through unwrap,
\* on an errored load or by a drop, every worker thread has finished
C12_JoinedBeforeHandleGone == HandleGone => AllExited

\* C12, amended: when unwrap() has returned, every worker thread has been
\* joined and has finished
C12_JoinedBeforeUnwrapReturns ==
    ui.pc = "done" => (ui.joined = thread_count /\ AllExited)

\* unwrap has returned the result of a batch that two workers loaded
C12_Witness == ui.pc = "done" /\ thread_count = 2 /\ is_done

\* progress() results as fractions: a is at most b
FractionLeq(a, b) == a.loaded * b.total <= b.loaded * a.total

\* C13: in every step of a load the loaded counter does not decrease and
\* stays at or below the number of requests, a set error flag stays set,
\* and a progress() read returns a value within 0 to 1 that is not below
\* the one read before
C13_ProgressMonotonic ==
    [][/\ loaded' >= loaded
       /\ loaded' <= key_count(info)
       /\ (err => err')
       /\ (progress' # None =>
              /\ 0 <= progress'[1].loaded
              /\ progress'[1].loaded <= progress'[1].total)
       /\ ((progress # None /\ progress' # None) =>
              FractionLeq(progress[1], progress'[1]))]_vars

\* progress() was read in mid-load and the counter has advanced since
C13_Witness ==
    /\ progress # None
    /\ 0 < progress[1].loaded
    /\ progress[1].loaded < loaded
    /\ ui.pc = "poll"

(***************************************************************************)
(* Claims about the workers' queues and locks (checked under LoaderSpec)   *)
(***************************************************************************)
\* C14: spawn_threads starts min(key count, queue count) workers, and the
\* uploads a worker issues all carry one queue index, which no other
\* worker uses and which is below the number of transfer queues
C14_OneQueuePerWorker ==
    /\ thread_count = Min(key_count(info), queue_count)
    /\ Len(threads) = thread_count
    /\ \A u \in queue_uses : u[2] \in 0..(queue_count - 1)
    /\ \A u, v \in queue_uses : (u[1] = v[1]) <=> (u[2] = v[2])

\* two workers have each issued an upload
C14_Witness ==
    /\ thread_count = 2
    /\ \E u, v \in queue_uses : u[1] # v[1]

\* worker w takes the lock of a bitmap's cache entry (read_image line 465)
\* while reading a material
LocksEntry(w) ==
    /\ w \in Workers
    /\ threads[w].pc = "bitmap_entry"
    /\ threads'[w].pc # "bitmap_entry"
    /\ threads[w].msg.kind # "Bitmap"

\* the bitmap ids the descriptor of a material names
DescriptorIds(m) ==
    {m.color, m.normal, m.params} \cup {m.emissive[k] : k \in DOMAIN m.emissive}

\* C15: reading one material, a worker locks the cache entries of its
\* bitmaps in strictly ascending id order, so each distinct id once, and
\* has locked every id of the descriptor when read_material returns
C15_EntryLocksAscending ==
    [][\A w \in 1..MaxQueues :
          /\ LocksEntry(w) =>
                /\ Head(threads[w].bitmap_ids) \in DescriptorIds(PakMaterial(threads[w].id))
                /\ \A held \in DOMAIN threads[w].images :
                      held < Head(threads[w].bitmap_ids)
          /\ (w \in Workers /\ threads[w].pc # "materials"
                /\ threads'[w].pc = "materials") =>
                DOMAIN threads'[w].images = DescriptorIds(PakMaterial(threads[w].id))]_vars

\* a worker reading the material that lists bitmap 2 before bitmap 1 holds
\* the image of 1 and is about to lock the entry of 2
C15_Witness ==
    \E w \in Workers :
        /\ threads[w].pc = "bitmap_entry"
        /\ threads[w].id = "M2"
        /\ DOMAIN threads[w].images = {1}
        /\ Head(threads[w].bitmap_ids) = 2

\* worker w is in load_material / load_scene at the call of
\* ModelBuffer::load_material, and the call pushes its textures
UploadsMaterial(w) ==
    /\ w \in Workers
    /\ threads[w].pc = "material_upload"
    /\ threads'[w].pc # "material_upload"
    /\ textures' # textures

\* the bitmap ids of the textures load_material has to be handed for m
DescriptorTextures(m) == <<m.color, m.normal, m.params>> \o m.emissive

\* C16: the textures a material upload appends, from the color index
\* recorded for the material (the length of the list before) on, are the
\* images decoded from the descriptor's color, normal, params and, if
\* any, emissive bitmap ids, in that order
C16_TexturesMatchDescriptor ==
    [][\A w \in 1..MaxQueues :
          UploadsMaterial(w) =>
             LET m == PakMaterial(threads[w].id)
                 color_index == MaterialData(m.emissive).color_index
             IN  /\ Len(textures') = color_index + Len(DescriptorTextures(m))
                 /\ \A k \in DOMAIN DescriptorTextures(m) :
                       textures'[color_index + k].bitmap = DescriptorTextures(m)[k]]_vars

\* material M1 (color from bitmap 1, normal and params from bitmap 2) has
\* been uploaded
C16_Witness == uploads["M1"] # <<>> /\ Len(textures) >= 3

(***************************************************************************)
(* Claims about the geometry buffer (checked under GeomSpec)               *)
(***************************************************************************)
\* C17: a placed mesh part has the 32-bit-index flag exactly when it has
\* more than 65535 vertices, and the bytes reserved for its indices are
\* its index count times 4 with the flag and times 2 without
C17_IndexWidth ==
    \A k \in DOMAIN geometries :
        LET g == geometries[k]
        IN  /\ g.index_is_u32 <=> (g.vertex_count > 65535)
            /\ g.index_is_u32 => g.index_len = g.index_count * 4
            /\ ~g.index_is_u32 => g.index_len = g.index_count * 2

\* a part of 65535 vertices and a part of 65536 vertices have been placed
C17_Witness ==
    /\ \E k \in DOMAIN geometries : geometries[k].vertex_count = 65535
    /\ \E k \in DOMAIN geometries : geometries[k].vertex_count = 65536

\* two ranges, given by their ends, share no byte
Apart(lo1, hi1, lo2, hi2) == hi1 < lo2 \/ hi2 < lo1

\* C18: after any sequence of load_model calls every part's index block
\* and vertex block start on a multiple of 4, the offsets grow strictly
\* from part to part, no two blocks share a byte, the geometry length is
\* a multiple of 4 and the mesh records have consecutive indices
C18_GeometryLayout ==
    /\ geometry_len % 4 = 0
    /\ \A k \in DOMAIN geometries :
          LET g == geometries[k]
          IN  /\ g.index_offset % 4 = 0
              /\ g.vertex_offset % 4 = 0
              /\ g.mesh = k - 1
              /\ Apart(g.index_offset, g.index_offset + g.index_len - 1,
                       g.vertex_offset, g.vertex_offset + g.vertex_len - 1)
              /\ g.vertex_offset + g.vertex_len <= geometry_len
    /\ \A k \in DOMAIN geometries : \A l \in DOMAIN geometries :
          k < l =>
             LET g == geometries[k]
                 h == geometries[l]
             IN  /\ g.index_offset < h.index_offset
                 /\ g.vertex_offset < h.vertex_offset
                 /\ g.vertex_offset + g.vertex_len <= h.index_offset
                 /\ g.index_offset + g.index_len <= h.index_offset

\* three parts have been placed, the first with 16-bit indices whose
\* bytes end off a multiple of 4
C18_Witness ==
    /\ Len(geometries) = 3
    /\ geometries[1].index_len = 6
    /\ model_count = 2

(***************************************************************************)
(* Claims about model instance handles (checked under MBSpec)              *)
(***************************************************************************)
\* the handles the index map does not hold: removed, or never issued
DeadHandles == ModelInstances \ LiveHandles

\* a step that is a call of remove_model_instance or of a setter with h
CallWith(h) ==
    \/ ModelBuffer_remove_model_instance(h)
    \/ \E material_index \in MaterialSlots, material \in Materials :
          ModelBuffer_set_model_instance_material(h, material_index, material)
    \/ \E slice \in MaterialSlices : ModelBuffer_set_model_instance_materials(h, slice)
    \/ \E transform \in Transforms : ModelBuffer_set_model_instance_transform(h, transform)

\* C19: remove_model_instance or a set_model_instance_* setter called
\* with a handle that was removed or never issued panics, and leaves the
\* index map, the handle array and the technique's instance data as
\* they were
C19_DeadHandlePanics ==
    [][\A h \in DeadHandles :
          CallWith(h) =>
             /\ panicked' \in {"remove_unwrap", "model_instance_mut"}
             /\ UNCHANGED <<model_instance_index, model_instances, technique>>]_vars

\* a setter was called with a dead handle while other instances live, one
\* handle having been removed before
C19_Witness ==
    /\ panicked = "model_instance_mut"
    /\ model_instances # <<>>
    /\ model_instance_id > Len(model_instances)

\* C20: the handles insert_model_instance has returned, in the order of
\* the calls, are strictly increasing: none is issued twice, removed or not
C20_HandlesIncrease ==
    \A i, j \in DOMAIN issued : i < j => issued[i] < issued[j]

\* handle 0 was removed before handle 2 was issued: handle 1 was moved to
\* the first slot and 2 was appended behind it
C20_Witness ==
    /\ Len(issued) = 3
    /\ model_instances = <<issued[2], issued[3]>>

(***************************************************************************)
(* Raster technique bookkeeping                                            *)
(***************************************************************************)
\* the slots of the raster technique's instance array
RasterSlots == 0..(Len(technique.model_instances) - 1)

\* the live instances whose model's mesh range contains mesh k
InstancesOfMesh(k) ==
    {i \in RasterSlots :
        k \in Raster_mesh_range(technique, At(technique.model_instances, i))}

RECURSIVE SumMeshCounts(_)
\* the mesh counts of the models of the instances at the given slots, summed
SumMeshCounts(slots) ==
    IF slots = {} THEN 0
    ELSE LET i == CHOOSE x \in slots : TRUE
         IN  At(technique.model_mesh_count,
                At(technique.model_instances, i).model.model_idx)
             + SumMeshCounts(slots \ {i})

\* C21: in the raster technique, after any calls of load_model,
\* push_model_instance and swap_remove_model_instance that returned, the
\* count of every mesh is the number of live instances whose model's mesh
\* range contains the mesh, and the total mesh-instance count is the sum
\* of the mesh counts of the live instances' models
C21_MeshCountsMatchInstances ==
    (technique.kind = "Raster" /\ panicked = "no") =>
        /\ \A k \in 0..(Len(technique.mesh_instance_counts) - 1) :
              At(technique.mesh_instance_counts, k) = Cardinality(InstancesOfMesh(k))
        /\ technique.mesh_instance_count = SumMeshCounts(RasterSlots)

\* two instances of models of different mesh counts are live after a third
\* instance was removed
C21_Witness ==
    /\ technique.kind = "Raster"
    /\ panicked = "no"
    /\ Len(technique.model_instances) = 2
    /\ Len(issued) = 3
    /\ At(technique.model_instances, 0).model.model_idx
          # At(technique.model_instances, 1).model.model_idx
    /\ technique.mesh_instance_count = 3

\* a step that is a call of a set_model_instance_* setter with h
SetterCall(h) ==
    \/ \E material_index \in MaterialSlots, material \in Materials :
          ModelBuffer_set_model_instance_material(h, material_index, material)
    \/ \E slice \in MaterialSlices : ModelBuffer_set_model_instance_materials(h, slice)
    \/ \E transform \in Transforms : ModelBuffer_set_model_instance_transform(h, transform)

\* the flag of slot i's bucket is set after the step
BucketDirtyAfter(i) ==
    (i \div INSTANCE_GRANULARITY) \in technique'.model_instance_dirty.set

RecordReturns == ModelBuffer_record("ok") /\ panicked' = "no"

\* the first `len` entries of a device buffer
Prefix(buf, len) == SubSeq(buf, 1, len)

\* the reference table holds exactly one (mesh index, instance slot) pair for
\* every mesh of every instance of t, ordered by instance slot
HoldsMeshInstances(refs, t) ==
    /\ Len(refs) = t.mesh_instance_count
    /\ \A k \in DOMAIN refs :
          /\ refs[k].model_instance_idx \in 0..(Len(t.model_instances) - 1)
          /\ refs[k].mesh_idx \in
                Raster_mesh_range(t, At(t.model_instances, refs[k].model_instance_idx))
    /\ \A i \in 0..(Len(t.model_instances) - 1) :
          \A m \in Raster_mesh_range(t, At(t.model_instances, i)) :
             Cardinality({k \in DOMAIN refs :
                             refs[k] = [mesh_idx |-> m, model_instance_idx |-> i]}) = 1
    /\ \A k, l \in DOMAIN refs :
          k < l => refs[k].model_instance_idx <= refs[l].model_instance_idx

\* the device buffers g hold the instance, count and reference tables of t
GpuMatchesCpu(t, g) ==
    /\ Len(g.model_instance_buf) >= Len(t.model_instances)
    /\ \A k \in DOMAIN t.model_instances :
          /\ g.model_instance_buf[k].material_indices = t.model_instances[k].materials
          /\ g.model_instance_buf[k].rotation = t.model_instances[k].rotation
          /\ g.model_instance_buf[k].translation = t.model_instances[k].translation
          /\ g.model_instance_buf[k].model_idx = t.model_instances[k].model.model_idx
    /\ Len(g.mesh_instance_count_buf) >= Len(t.mesh_instance_counts)
    /\ Prefix(g.mesh_instance_count_buf, Len(t.mesh_instance_counts))
          = t.mesh_instance_counts
    /\ Len(g.mesh_instance_buf) >= t.mesh_instance_count
    /\ HoldsMeshInstances(Prefix(g.mesh_instance_buf, t.mesh_instance_count), t)

\* C23: after every Raster::record call that returned, whatever inserts,
\* removals and setter calls preceded it, the device copies match the host
\* state: the model-instance table and the per-mesh count table equal the
\* instance array and the count array, and the mesh-instance reference
\* table holds, in instance order, exactly one (mesh index, instance slot)
\* pair for every mesh of every live instance
C23_GpuMatchesCpuAfterRecord ==
    [][(technique.kind = "Raster" /\ RecordReturns) =>
          GpuMatchesCpu(technique', gpu')]_vars

\* a frame was recorded with two instances of different models live, one
\* instance having been removed since a frame with more references
C23_Witness ==
    /\ technique.kind = "Raster"
    /\ panicked = "no"
    /\ Len(issued) = 3
    /\ Len(technique.model_instances) = 2
    /\ technique.mesh_instance_count = 3
    /\ Len(gpu.mesh_instance_buf) > technique.mesh_instance_count
    /\ GpuMatchesCpu(technique, gpu)

\* the order Raster::record begins its passes in
RasterPassOrder ==
    <<"copy mesh_instance_counts", "exclusive sum reduce", "exclusive sum scan",
      "Mesh command", "copy model_instances", "copy mesh_instances",
      "Mesh cull", "Mesh draw">>

Rank(name) == CHOOSE k \in DOMAIN RasterPassOrder : RasterPassOrder[k] = name

\* pass i writes a buffer that pass j reads
Feeds(i, j) == passes[i].writes \cap passes[j].reads # {}

PassNames == {passes[k].name : k \in DOMAIN passes}

\* C24: the passes of a Raster::record call are recorded in the order
\* count-table upload, exclusive sum reduce, exclusive sum scan, mesh
\* command, instance-table uploads, mesh cull, mesh draw: every pass that
\* writes a buffer the draw reads comes before the draw, the exclusive sum
\* before the mesh command pass that reads its offsets, the mesh command
\* pass before the mesh cull pass; a call that returned recorded the
\* upload, command, cull and draw passes
C24_PassOrder ==
    technique.kind = "Raster" =>
        /\ \A i, j \in DOMAIN passes :
              i < j => Rank(passes[i].name) < Rank(passes[j].name)
        /\ \A i, j \in DOMAIN passes :
              (passes[j].name = "Mesh draw" /\ Feeds(i, j)) => i < j
        /\ \A i, j \in DOMAIN passes :
              (passes[j].name = "Mesh command" /\ Feeds(i, j)) => i < j
        /\ \A i, j \in DOMAIN passes :
              (passes[i].name = "Mesh command" /\ passes[j].name = "Mesh cull") => i < j
        /\ (panicked = "no" /\ passes # <<>>) =>
              /\ {"copy mesh_instance_counts", "Mesh command", "copy model_instances",
                  "Mesh cull", "Mesh draw"} \subseteq PassNames
              /\ technique.mesh_count > 0 => "exclusive sum scan" \in PassNames

\* a frame with every pass: the reduce pass and the reference upload too
C24_Witness ==
    /\ technique.kind = "Raster"
    /\ panicked = "no"
    /\ Len(passes) = Len(RasterPassOrder)

\* the bottom-level structure b was built from the geometries of model m
BuiltFor(b, m) ==
    /\ b.geometries # <<>>
    /\ b.geometries = SubSeq(geometries, m.mesh_idx + 1, m.mesh_idx + Len(b.geometries))
    /\ \A k \in DOMAIN b.geometries : b.geometries[k].mesh = m.mesh_idx + k - 1

\* C25: in the ray-trace technique every record call that returned built a
\* top-level structure with exactly one entry per instance live at the
\* call, the entry of an instance having the instance's slot as custom
\* index and the structure built for the instance's model as bottom-level
\* reference; there is one bottom-level structure per loaded model, at the
\* position of the model's model index
C25_TlasMatchesInstances ==
    [][(technique.kind = "RayTrace" /\ RecordReturns) =>
          /\ Len(gpu'.tlas) = Cardinality(LiveHandles)
          /\ \A h \in LiveHandles :
                LET entry == At(gpu'.tlas, model_instance_index[h])
                IN  /\ entry.instance_custom_index = model_instance_index[h]
                    /\ BuiltFor(entry.acceleration_structure_reference,
                                written[h].model)
          /\ Len(technique.model_blas) = Cardinality(loaded_models)
          /\ \A m \in loaded_models :
                BuiltFor(At(technique.model_blas, m.model_idx), m)]_vars

\* a frame recorded after a removal, with instances of two models live, the
\* instance of the second model in the first slot
C25_Witness ==
    /\ technique.kind = "RayTrace"
    /\ panicked = "no"
    /\ Len(issued) = 3
    /\ Len(gpu.tlas) = 2
    /\ Len(technique.model_instances) = 2
    /\ Len(technique.model_blas) = 2
    /\ technique.model_instances[1].model.model_idx = 1
    /\ gpu.tlas[1].acceleration_structure_reference
          = At(technique.model_blas, 1)
    /\ gpu.tlas[2].acceleration_structure_reference
          = At(technique.model_blas, 0)

(***************************************************************************)
(* Shader binding table (src/render/model/sbt.rs)                          *)
(***************************************************************************)
\* everything but the primitive under study, as constructed
PrimitiveIdle(kind) ==
    /\ ModelBuffer_new(kind)
    /\ subgroup_size = 2 ^ MaxSubgroupLog
    /\ loaded_models = {}
    /\ panicked = "no"
    /\ written = <<>>
    /\ LoaderIdle

ShaderBindingGroup_new(group_index, shader_count) ==
    [group_index |-> group_index, shader_count |-> shader_count]

\* RayTracePipeline::group_handle: the opaque bytes of one shader group
group_handle(props, group_index) ==
    [k \in 1..props.shader_group_handle_size |-> <<"handle", group_index, k>>]

\* copy_group_handle: data[start..end] = handle, returning start
copy_group_handle(props, data, group_index, group_size) ==
    LET handle == group_handle(props, group_index)
        start == group_index * group_size
        end == start + Len(handle)
    IN  IF end > Len(data)
        THEN [data |-> data, start |-> start, ok |-> FALSE]
        ELSE [data |-> [i \in 1..Len(data) |->
                           IF i > start /\ i <= end THEN handle[i - start]
                                                    ELSE data[i]],
              start |-> start, ok |-> TRUE]

StridedDeviceAddressRegion(device_address, stride, size) ==
    [device_address |-> device_address, stride |-> stride, size |-> size]

\* ShaderBindingTable::new with callable = None
ShaderBindingTable_new(props, device_address, hit, miss) ==
    LET handle_size == align_up_u32(props.shader_group_handle_size,
                                    props.shader_group_base_alignment)
        group_size == align_up_u32(handle_size, props.shader_group_base_alignment)
        ray_gen_size == group_size
        hit_size == group_size * hit.shader_count
        miss_size == group_size * miss.shader_count
        callable_size == 0
        zeroed == [i \in 1..(ray_gen_size + hit_size + miss_size + callable_size) |-> 0]
        c0 == copy_group_handle(props, zeroed, 0, group_size)
        c1 == copy_group_handle(props, c0.data, hit.group_index, group_size)
        c2 == copy_group_handle(props, c1.data, miss.group_index, group_size)
    IN  [ok |-> c0.ok /\ c1.ok /\ c2.ok,
         buffer |-> [device_address |-> device_address, data |-> c2.data],
         ray_gen |-> StridedDeviceAddressRegion(device_address, handle_size,
                                                ray_gen_size),
         hit |-> StridedDeviceAddressRegion(device_address + ray_gen_size,
                                            handle_size, hit_size),
         miss |-> StridedDeviceAddressRegion(device_address + hit_size,
                                             group_size, miss_size),
         callable |-> StridedDeviceAddressRegion(0, 0, 0)]

ShaderBindingTable_regions(table) ==
    <<table.ray_gen, table.hit, table.miss, table.callable>>

\* the groups of the reference path tracer: ray generation 0, hit 1, miss 2
RayTrace_hit_group == ShaderBindingGroup_new(1, 1)
RayTrace_miss_group == ShaderBindingGroup_new(2, 1)

RayTrace_build_sbt(props, device_address) ==
    ShaderBindingTable_new(props, device_address, RayTrace_hit_group,
                           RayTrace_miss_group)

\* the ray trace properties of the devices and the addresses of the buffer
RayTraceProperties ==
    [shader_group_handle_size : 1..MaxHandleSize,
     shader_group_base_alignment : {2 ^ k : k \in 0..MaxAlignLog}]

SbtInit ==
    /\ PrimitiveIdle("RayTrace")
    /\ excl_sum = <<>>
    /\ bounding_sphere = <<>>
    /\ nav_mesh = <<>>
    /\ \E props \in RayTraceProperties, k \in 1..2 :
          sbt = [props |-> props,
                 device_address |-> k * props.shader_group_base_alignment,
                 table |-> None,
                 regions |-> None]

\* RayTrace::new builds the table
BuildSbt ==
    /\ sbt.table = None
    /\ sbt' = [sbt EXCEPT !.table = RayTrace_build_sbt(sbt.props, sbt.device_address)]
    /\ UNCHANGED <<excl_sum, bounding_sphere, nav_mesh>>
    /\ UNCHANGED <<material_count, mesh_count, geometry_len, geometries,
                   model_count, model_instance_id, issued, subgroup_size, gpu,
                   passes, model_instance_index, model_instances, textures,
                   technique, loaded_models, panicked, written, ldVars>>

\* RayTrace::record reads the regions for trace_rays
SbtRegions ==
    /\ sbt.table # None
    /\ sbt.regions = None
    /\ sbt' = [sbt EXCEPT !.regions = ShaderBindingTable_regions(sbt.table)]
    /\ UNCHANGED <<excl_sum, bounding_sphere, nav_mesh>>
    /\ UNCHANGED <<material_count, mesh_count, geometry_len, geometries,
                   model_count, model_instance_id, issued, subgroup_size, gpu,
                   passes, model_instance_index, model_instances, textures,
                   technique, loaded_models, panicked, written, ldVars>>

SbtNext == BuildSbt \/ SbtRegions

SbtSpec == SbtInit /\ [][SbtNext]_vars

\* the byte offset of a region in the buffer of the table
RegionOffset(region) == region.device_address - sbt.table.buffer.device_address

RegionInside(region) ==
    /\ RegionOffset(region) >= 0
    /\ RegionOffset(region) + region.size <= Len(sbt.table.buffer.data)

RegionsDisjoint(a, b) ==
    \/ RegionOffset(a) + a.size <= RegionOffset(b)
    \/ RegionOffset(b) + b.size <= RegionOffset(a)

\* the region starts with the handle of the group
RegionStartsAtHandle(region, group_index) ==
    LET handle == group_handle(sbt.props, group_index)
        off == RegionOffset(region)
    IN  /\ off >= 0
        /\ off + Len(handle) <= Len(sbt.table.buffer.data)
        /\ \A k \in 1..Len(handle) : sbt.table.buffer.data[off + k] = handle[k]

\* C26: for every handle size and base alignment, the ray-generation, hit and
\* miss regions that regions() returns lie inside the buffer of the table, are
\* pairwise disjoint, and each starts at the byte offset where the handle of
\* its shader group was written.
C26_RegionsMatchHandles ==
    (sbt # <<>> /\ sbt.regions # None) =>
        LET ray_gen == sbt.regions[1]
            hit == sbt.regions[2]
            miss == sbt.regions[3]
        IN  /\ RegionInside(ray_gen) /\ RegionInside(hit) /\ RegionInside(miss)
            /\ RegionsDisjoint(ray_gen, hit)
            /\ RegionsDisjoint(ray_gen, miss)
            /\ RegionsDisjoint(hit, miss)
            /\ RegionStartsAtHandle(ray_gen, 0)
            /\ RegionStartsAtHandle(hit, RayTrace_hit_group.group_index)
            /\ RegionStartsAtHandle(miss, RayTrace_miss_group.group_index)

\* regions() has returned a miss region that starts where the hit region does,
\* one group before the miss handle
C26_Witness ==
    /\ sbt # <<>>
    /\ sbt.regions # None
    /\ sbt.regions[3].device_address = sbt.regions[2].device_address
    /\ RegionStartsAtHandle(sbt.regions[2], RayTrace_hit_group.group_index)
    /\ ~RegionStartsAtHandle(sbt.regions[3], RayTrace_miss_group.group_index)

(***************************************************************************)
(* Exclusive sum on the device (src/render/excl_sum.rs; the two compute    *)
(* shaders are described in the specification only)                        *)
(***************************************************************************)
RECURSIVE SumRange(_, _, _)
\* input[from] + ... + input[to]; the values used stay far below 2 ^ 32
SumRange(input, from, to) ==
    IF to < from THEN 0 ELSE input[to] + SumRange(input, from, to - 1)

\* the reduce shader: workgroup g holds the sum of all groups before group
\* g + 1
exclusive_sum_reduce(S, input, group_count, workgroup_buf) ==
    [g \in 1..Len(workgroup_buf) |->
        IF g <= group_count THEN Some(SumRange(input, 1, g * S))
                            ELSE workgroup_buf[g]]

\* the scan shader: the total before the group plus the exclusive scan inside
\* the group; the first group has no total before it
exclusive_sum_scan(S, workgroup_buf, input, group_count, output) ==
    [i \in 1..Len(output) |->
        LET g == (i - 1) \div S
            base == IF g = 0 THEN Some(0)
                    ELSE IF g > Len(workgroup_buf) THEN None
                    ELSE workgroup_buf[g]
        IN  IF g >= group_count THEN output[i]
            ELSE IF base = None THEN None
            ELSE Some(base[1] + SumRange(input, g * S + 1, i - 1))]

Counts == 0..MaxCount

ExclSumInit ==
    /\ PrimitiveIdle("Raster")
    /\ sbt = <<>>
    /\ bounding_sphere = <<>>
    /\ nav_mesh = <<>>
    /\ \E S \in 1..MaxSubgroupSize, N \in 0..MaxInputCount :
          \E data \in [1..N -> Counts] :
             excl_sum = [subgroup_size |-> S,
                         count |-> N,
                         input_buf |-> data,
                         input_count |-> N,
                         pc |-> "new",
                         dispatches |-> <<>>,
                         workgroup_buf |-> <<>>,
                         output_buf |-> <<>>]

ExclSumUnchanged ==
    /\ UNCHANGED <<sbt, bounding_sphere, nav_mesh>>
    /\ UNCHANGED <<material_count, mesh_count, geometry_len, geometries,
                   model_count, model_instance_id, issued, subgroup_size, gpu,
                   passes, model_instance_index, model_instances, textures,
                   technique, loaded_models, panicked, written, ldVars>>

\* the caller aligns the count; what the buffer holds past the counts is
\* whatever was there
ExclSumAlign ==
    /\ excl_sum.pc = "new"
    /\ LET aligned == ExclusiveSumPipeline_align_input_count(
                          excl_sum.subgroup_size, excl_sum.count)
       IN  \E stale \in [1..(IF aligned > excl_sum.count
                              THEN aligned - excl_sum.count ELSE 0) -> {0, MaxCount}] :
              excl_sum' = [excl_sum EXCEPT !.pc = "aligned",
                                           !.input_count = aligned,
                                           !.input_buf = @ \o stale]
    /\ ExclSumUnchanged

\* ExclusiveSumPipeline::record. The debug_assert on the alignment stops a
\* debug build and is absent from a release build.
ExclSumRecord ==
    /\ excl_sum.pc = "aligned"
    /\ LET S == excl_sum.subgroup_size
           input_count == excl_sum.input_count
           reduce_count == ExclusiveSumPipeline_reduce_count(S, input_count)
       IN  \/ /\ input_count = 0
              /\ excl_sum' = [excl_sum EXCEPT !.pc = "done"]
           \/ /\ input_count # 0
              /\ input_count % S # 0
              /\ excl_sum' = [excl_sum EXCEPT !.pc = "debug_assert"]
           \/ /\ input_count # 0
              /\ reduce_count >= 0
              /\ excl_sum' =
                   [excl_sum EXCEPT
                      !.pc = "recorded",
                      !.dispatches = ExclusiveSumPipeline_dispatch(S, input_count),
                      !.workgroup_buf = [g \in 1..(IF reduce_count > 1 THEN reduce_count ELSE 1) |-> None],
                      !.output_buf = [i \in 1..input_count |-> None]]
    /\ ExclSumUnchanged

\* the device runs the next pass of the graph
ExclSumExecute ==
    /\ excl_sum.pc = "recorded"
    /\ LET S == excl_sum.subgroup_size
           d == Head(excl_sum.dispatches)
           rest == Tail(excl_sum.dispatches)
       IN  excl_sum' =
             [excl_sum EXCEPT
                !.dispatches = rest,
                !.pc = IF rest = <<>> THEN "done" ELSE "recorded",
                !.workgroup_buf =
                    IF d.name = "exclusive sum reduce"
                    THEN exclusive_sum_reduce(S, excl_sum.input_buf, d.group_count, @)
                    ELSE @,
                !.output_buf =
                    IF d.name = "exclusive sum scan"
                    THEN exclusive_sum_scan(S, excl_sum.workgroup_buf,
                                            excl_sum.input_buf, d.group_count, @)
                    ELSE @]
    /\ ExclSumUnchanged

ExclSumNext == ExclSumAlign \/ ExclSumRecord \/ ExclSumExecute

ExclSumSpec == ExclSumInit /\ [][ExclSumNext]_vars

\* the exclusive sum has run over a count that is a multiple of S
ExclSumDone ==
    /\ excl_sum # <<>>
    /\ excl_sum.pc = "done"
    /\ excl_sum.input_count % excl_sum.subgroup_size = 0

\* C27: for every array of counts whose length is a multiple of the subgroup
\* size S, the reduce (N/S - 1 workgroups, skipped when N = S) followed by the
\* scan (N/S workgroups) leaves output[0] = 0 and
\* output[i] = output[i-1] + input[i-1] for every i > 0.
C27_ExclusiveSum ==
    ExclSumDone =>
        LET input == excl_sum.input_buf
            output == excl_sum.output_buf
        IN  /\ Len(output) = excl_sum.input_count
            /\ \A i \in 1..Len(output) : output[i] # None
            /\ Len(output) > 0 => output[1] = Some(0)
            /\ \A i \in 2..Len(output) :
                  output[i][1] = output[i - 1][1] + input[i - 1]

\* five counts padded to three groups of two: the reduce ran with two
\* workgroups and the last sum is not zero
C27_Witness ==
    /\ ExclSumDone
    /\ excl_sum.subgroup_size = 2
    /\ excl_sum.count = 5
    /\ excl_sum.input_count = 6
    /\ excl_sum.workgroup_buf = <<Some(excl_sum.input_buf[1] + excl_sum.input_buf[2]),
                                  Some(SumRange(excl_sum.input_buf, 1, 4))>>
    /\ excl_sum.output_buf[6] = Some(SumRange(excl_sum.input_buf, 1, 5))
    /\ excl_sum.output_buf[6][1] > MaxCount

IsPowerOfTwo(n) == \E k \in 0..MaxSubgroupSize : n = 2 ^ k

\* the aligned count is the smallest multiple of S that is at least N
SmallestMultiple ==
    /\ excl_sum.input_count % excl_sum.subgroup_size = 0
    /\ excl_sum.input_count >= excl_sum.count
    /\ excl_sum.input_count - excl_sum.count < excl_sum.subgroup_size

VecAdd(a, b) == <<a[1] + b[1], a[2] + b[2], a[3] + b[3]>>

RECURSIVE SumSome(_, _, _)
\* buf[from] + ... + buf[to] of a buffer of sums; None when an element was
\* never written
SumSome(buf, from, to) ==
    IF to < from THEN Some(<<0, 0, 0>>)
    ELSE LET rest == SumSome(buf, from, to - 1)
         IN  IF rest = None \/ buf[to] = None THEN None
             ELSE Some(VecAdd(rest[1], buf[to][1]))

RECURSIVE MaxSome(_, _, _)
\* the largest of buf[from], ..., buf[to]; None when an element was never
\* written
MaxSome(buf, from, to) ==
    IF to < from THEN Some(0)
    ELSE LET rest == MaxSome(buf, from, to - 1)
         IN  IF rest = None \/ buf[to] = None THEN None
             ELSE IF buf[to][1] > rest[1] THEN buf[to] ELSE rest

\* |v - center| ^ 2 times vertex_run ^ 2, center being sum / vertex_run
DistSq(v, sum, vertex_run) ==
    LET d == [a \in 1..3 |-> vertex_run * v[a] - sum[a]]
    IN  d[1] * d[1] + d[2] * d[2] + d[3] * d[3]

\* shader "avg": every workgroup sums the positions of its S vertices
bounding_sphere_avg(S, vertices, group_count) ==
    [w \in 1..group_count |->
        SumSome([i \in 1..Len(vertices) |-> Some(vertices[i])],
                (w - 1) * S + 1, Min(w * S, Len(vertices)))]

\* shader "reduce_avg": every workgroup folds S partial sums into one
bounding_sphere_reduce_avg(S, input, input_len, group_count, output) ==
    [g \in 1..Len(output) |->
        IF g <= group_count
        THEN SumSome(input, (g - 1) * S + 1, Min(g * S, input_len))
        ELSE output[g]]

\* shader "dist_sq": every workgroup takes the largest squared distance of
\* its S vertices to the center
bounding_sphere_dist_sq(S, vertices, center, group_count) ==
    [w \in 1..group_count |->
        IF center = None THEN None
        ELSE MaxSome([i \in 1..Len(vertices) |->
                         Some(DistSq(vertices[i], center[1], Len(vertices)))],
                     (w - 1) * S + 1, Min(w * S, Len(vertices)))]

\* shader "reduce_dist_sq": every workgroup folds S maxima into one
bounding_sphere_reduce_dist_sq(S, input, input_len, group_count, output) ==
    [g \in 1..Len(output) |->
        IF g <= group_count
        THEN MaxSome(input, (g - 1) * S + 1, Min(g * S, input_len))
        ELSE output[g]]

\* the loop handing back the buffer that was written last but one
reduce_result_unswapped(input_buf, output_buf) == output_buf

\* the value of the block of a reduction loop: after the swap that ends
\* every iteration the result lies in input_buf
reduce_result(input_buf, output_buf) == input_buf

\* the positions the tests use
TestVertices ==
    {<<2, 1, -1>>, <<6, 1, -1>>, <<-2, 0, 0>>, <<2, 0, 0>>, <<0, 0, 0>>}

BoundingSphereInit ==
    /\ PrimitiveIdle("Raster")
    /\ sbt = <<>>
    /\ excl_sum = <<>>
    /\ nav_mesh = <<>>
    /\ \E S \in 1..MaxSubgroupSize, vertex_run \in 1..MaxVertexCount :
          \E vertices \in [1..vertex_run -> TestVertices] :
             LET workgroup_count == (vertex_run + S - 1) \div S
                 reduce_count == (workgroup_count + S - 1) \div S
             IN  bounding_sphere =
                   [subgroup_size |-> S,
                    vertices |-> vertices,
                    workgroup_count |-> workgroup_count,
                    pc |-> "avg",
                    bufs |-> [avg_workgroup_buf |-> [w \in 1..workgroup_count |-> None],
                              avg_reduce_buf |-> [w \in 1..reduce_count |-> None],
                              dist_sq_workgroup_buf |-> [w \in 1..workgroup_count |-> None],
                              dist_sq_reduce_buf |-> [w \in 1..reduce_count |-> None]],
                    input_buf |-> "avg_workgroup_buf",
                    output_buf |-> "avg_reduce_buf",
                    reduce_count |-> workgroup_count,
                    reduce_passes |-> 0,
                    avg_buf |-> "",
                    dist_sq_buf |-> "",
                    last_write |-> "",
                    center |-> None,
                    radius |-> None]

BoundingSphereUnchanged ==
    /\ UNCHANGED <<sbt, excl_sum, nav_mesh>>
    /\ UNCHANGED <<material_count, mesh_count, geometry_len, geometries,
                   model_count, model_instance_id, issued, subgroup_size, gpu,
                   passes, model_instance_index, model_instances, textures,
                   technique, loaded_models, panicked, written, ldVars>>

\* pass "bounding sphere average", then the first loop is entered
BoundingSphereAvg ==
    /\ bounding_sphere.pc = "avg"
    /\ bounding_sphere' =
         [bounding_sphere EXCEPT
            !.pc = "reduce_avg",
            !.last_write = "avg_workgroup_buf",
            !.bufs.avg_workgroup_buf =
                bounding_sphere_avg(bounding_sphere.subgroup_size,
                                    bounding_sphere.vertices,
                                    bounding_sphere.workgroup_count),
            !.input_buf = "avg_workgroup_buf",
            !.output_buf = "avg_reduce_buf",
            !.reduce_count = bounding_sphere.workgroup_count,
            !.reduce_passes = 0]
    /\ BoundingSphereUnchanged

\* an iteration that leaves out the swap
ReduceIteration_no_swap(reduced) ==
    /\ bounding_sphere.reduce_count > 1
    /\ bounding_sphere.reduce_passes < MaxReducePasses
    /\ bounding_sphere' =
         [bounding_sphere EXCEPT
            !.reduce_count = (@ + bounding_sphere.subgroup_size - 1)
                                \div bounding_sphere.subgroup_size,
            !.bufs[bounding_sphere.output_buf] = reduced,
            !.last_write = bounding_sphere.output_buf,
            !.reduce_passes = @ + 1]
    /\ BoundingSphereUnchanged

\* one iteration of a reduction loop: a reduce pass that reads input_buf and
\* writes output_buf, then the swap
ReduceIteration(reduced) ==
    /\ bounding_sphere.reduce_count > 1
    /\ bounding_sphere.reduce_passes < MaxReducePasses
    /\ bounding_sphere' =
         [bounding_sphere EXCEPT
            !.reduce_count = (@ + bounding_sphere.subgroup_size - 1)
                                \div bounding_sphere.subgroup_size,
            !.bufs[bounding_sphere.output_buf] = reduced,
            !.last_write = bounding_sphere.output_buf,
            !.input_buf = bounding_sphere.output_buf,
            !.output_buf = bounding_sphere.input_buf,
            !.reduce_passes = @ + 1]
    /\ BoundingSphereUnchanged

\* pass "bounding sphere reduce average"
BoundingSphereReduceAvg ==
    /\ bounding_sphere.pc = "reduce_avg"
    /\ ReduceIteration(
          bounding_sphere_reduce_avg(
              bounding_sphere.subgroup_size,
              bounding_sphere.bufs[bounding_sphere.input_buf],
              bounding_sphere.reduce_count,
              CeilDiv(bounding_sphere.reduce_count, bounding_sphere.subgroup_size),
              bounding_sphere.bufs[bounding_sphere.output_buf]))

\* the first loop is left: avg_buf is copied to the center, then pass
\* "bounding sphere distance squared", then the second loop is entered
BoundingSphereDistSq ==
    /\ bounding_sphere.pc = "reduce_avg"
    /\ bounding_sphere.reduce_count <= 1
    /\ LET avg_buf == reduce_result(bounding_sphere.input_buf,
                                    bounding_sphere.output_buf)
           center == bounding_sphere.bufs[avg_buf][1]
       IN  bounding_sphere' =
             [bounding_sphere EXCEPT
                !.pc = "reduce_dist_sq",
                !.avg_buf = avg_buf,
                !.center = center,
                !.last_write = "dist_sq_workgroup_buf",
                !.bufs.dist_sq_workgroup_buf =
                    bounding_sphere_dist_sq(bounding_sphere.subgroup_size,
                                            bounding_sphere.vertices, center,
                                            bounding_sphere.workgroup_count),
                !.input_buf = "dist_sq_workgroup_buf",
                !.output_buf = "dist_sq_reduce_buf",
                !.reduce_count = bounding_sphere.workgroup_count,
                !.reduce_passes = 0]
    /\ BoundingSphereUnchanged

\* pass "bounding sphere reduce distance squared"
BoundingSphereReduceDistSq ==
    /\ bounding_sphere.pc = "reduce_dist_sq"
    /\ ReduceIteration(
          bounding_sphere_reduce_dist_sq(
              bounding_sphere.subgroup_size,
              bounding_sphere.bufs[bounding_sphere.input_buf],
              bounding_sphere.reduce_count,
              CeilDiv(bounding_sphere.reduce_count, bounding_sphere.subgroup_size),
              bounding_sphere.bufs[bounding_sphere.output_buf]))

\* the second loop is left: dist_sq_buf is copied to the radius
BoundingSphereCopyRadius ==
    /\ bounding_sphere.pc = "reduce_dist_sq"
    /\ bounding_sphere.reduce_count <= 1
    /\ LET dist_sq_buf == reduce_result(bounding_sphere.input_buf,
                                        bounding_sphere.output_buf)
       IN  bounding_sphere' =
             [bounding_sphere EXCEPT
                !.pc = "done",
                !.dist_sq_buf = dist_sq_buf,
                !.radius = bounding_sphere.bufs[dist_sq_buf][1]]
    /\ BoundingSphereUnchanged

BoundingSphereNext ==
    \/ BoundingSphereAvg
    \/ BoundingSphereReduceAvg
    \/ BoundingSphereDistSq
    \/ BoundingSphereReduceDistSq
    \/ BoundingSphereCopyRadius

BoundingSphereSpec == BoundingSphereInit /\ [][BoundingSphereNext]_vars

BoundingSphereDone == bounding_sphere # <<>> /\ bounding_sphere.pc = "done"

\* the largest squared distance of a vertex of the run to the written
\* center, times the length of the run squared
MaxDistSq ==
    LET n == Len(bounding_sphere.vertices)
        d == [i \in 1..n |->
                DistSq(bounding_sphere.vertices[i], bounding_sphere.center[1], n)]
    IN  CHOOSE m \in {d[i] : i \in 1..n} : \A i \in 1..n : d[i] <= m

\* C29 as stated: for every non-empty run of vertices the radius written is
\* the largest Euclidean distance, not the squared distance, from the written
\* center to a vertex of the run. With the radius r kept as r * n ^ 2 and the
\* squared distances as their products with n ^ 2, r is that distance when
\* r ^ 2 is the largest squared distance: (r n^2)^2 = (d n^2) n^2.
C29_RadiusIsDistance ==
    BoundingSphereDone =>
        LET n == Len(bounding_sphere.vertices)
        IN  /\ bounding_sphere.center # None
            /\ bounding_sphere.radius # None
            /\ bounding_sphere.radius[1] * bounding_sphere.radius[1]
                  = MaxDistSq * n * n

\* C29: for every non-empty run of vertices the radius written is the
\* largest squared Euclidean distance from the written center, the average
\* of the run, to a vertex of the run.
C29_RadiusIsSquaredDistance ==
    BoundingSphereDone =>
        /\ bounding_sphere.center
             = SumSome([i \in 1..Len(bounding_sphere.vertices) |->
                          Some(bounding_sphere.vertices[i])],
                       1, Len(bounding_sphere.vertices))
        /\ bounding_sphere.radius = Some(MaxDistSq)

\* the run (2,1,-1), (6,1,-1) of the tests: center (4,1,-1), written as the
\* sum (8,2,-2) of two, and radius 4, written as 16 over 2 ^ 2
C29_Witness ==
    /\ BoundingSphereDone
    /\ bounding_sphere.vertices = << <<2, 1, -1>>, <<6, 1, -1>> >>
    /\ bounding_sphere.center = Some(<<8, 2, -2>>)
    /\ bounding_sphere.radius = Some(16)

\* a step of one of the two reduction loops
ReduceStep ==
    /\ bounding_sphere # <<>>
    /\ bounding_sphere.pc \in {"reduce_avg", "reduce_dist_sq"}
    /\ bounding_sphere'.pc = bounding_sphere.pc
    /\ bounding_sphere'.reduce_passes = bounding_sphere.reduce_passes + 1

\* C30: for every vertex count >= 1 and every subgroup size S >= 1 each of
\* the two reduction loops terminates: at every level the remaining count
\* strictly shrinks, to the ceiling of count / S, until it is at most 1.
C30_ReduceShrinks ==
    [][ReduceStep =>
          /\ bounding_sphere'.reduce_count < bounding_sphere.reduce_count
          /\ bounding_sphere'.reduce_count * bounding_sphere.subgroup_size
                >= bounding_sphere.reduce_count
          /\ (bounding_sphere'.reduce_count - 1) * bounding_sphere.subgroup_size
                < bounding_sphere.reduce_count]_vars

\* with subgroups of one a loop over two workgroups has recorded
\* MaxReducePasses passes and two values remain
C30_Witness ==
    /\ bounding_sphere # <<>>
    /\ bounding_sphere.subgroup_size = 1
    /\ Len(bounding_sphere.vertices) = 2
    /\ bounding_sphere.pc = "reduce_avg"
    /\ bounding_sphere.reduce_passes = MaxReducePasses
    /\ bounding_sphere.reduce_count = 2

(***************************************************************************)
(* The loaded counter and the result maps (src/ui/loader.rs)               *)
(***************************************************************************)
\* the workers that hold a request, and those that left on a failed one
InFlight == {w \in Workers : threads[w].msg.kind # ""}

FailedRequests == {w \in Workers : threads[w].pc = "failed"}

\* the requests received so far: those sent and no longer in the channel
RequestsReceived == total - Cardinality(RequestsQueued)

\* C32: the loaded counter equals the number of requests whose load function
\* returned success: a failed request is never counted, so once a request has
\* failed is_done() stays false, and is_done() true implies that every
\* request of the batch was processed successfully.
C32_LoadedCountsSuccesses ==
    /\ loaded = RequestsReceived - Cardinality(InFlight) - Cardinality(FailedRequests)
    /\ (Spawned /\ FailedRequests # {}) => ~is_done
    /\ (Spawned /\ is_done) =>
          /\ RequestsQueued = {}
          /\ InFlight = {}
          /\ FailedRequests = {}
          /\ loaded = key_count(info)

\* the load is over: one request failed and every other was loaded
C32_Witness ==
    /\ Spawned
    /\ AllExited
    /\ Cardinality(FailedRequests) = 1
    /\ loaded >= 1
    /\ loaded = total - 1
    /\ ~is_done

\* C33: in every reachable state of a load is_done() and is_err() are not
\* both true, whichever way a worker set the error flag: a failed request, a
\* failure to open its archive handle, a receive error.
C33_DoneExcludesErr == Spawned => ~(is_done /\ is_err)

\* every request was loaded by the workers that opened their archive, and a
\* worker that could not open its own has set the flag
C33_Witness ==
    /\ Spawned
    /\ is_done
    /\ is_err
    /\ total >= 1
    /\ FailedRequests = {}
    /\ \E w \in Workers : threads[w].pc = "no_pak"

\* every key of the sequence has an entry in the map
HasKeys(map, keys) == \A k \in DOMAIN keys : keys[k] \in DOMAIN map

\* the map holds Key(k) for every key of the sequence
HasKeyEntries(map, keys) == \A k \in DOMAIN keys : Key(keys[k]) \in DOMAIN map

\* the ids the references of a loaded scene look up, as Load::unwrap does
SceneIdsPresent(scene) ==
    \A r \in DOMAIN scene.refs :
       /\ \A m \in DOMAIN scene.refs[r].materials :
             Id(scene.refs[r].materials[m]) \in DOMAIN materials
       /\ scene.refs[r].model # None =>
             Id(scene.refs[r].model[1]) \in DOMAIN models

\* C34: whenever is_done() is true the result maps hold an entry for every
\* requested bitmap, font, scene and sound key, a key entry for every
\* requested material and model, and an id entry for every material id and
\* model id a loaded scene refers to.
C34_ResultsComplete ==
    (Spawned /\ is_done) =>
        /\ HasKeys(bitmaps, info.bitmaps)
        /\ HasKeys(fonts, info.fonts)
        /\ HasKeys(scenes, info.scenes)
        /\ HasKeys(sounds, info.sounds)
        /\ HasKeyEntries(materials, info.materials)
        /\ HasKeyEntries(models, info.models)
        /\ \A k \in DOMAIN scenes : SceneIdsPresent(scenes[k])

\* the batch of a model, a scene and a material is done: the scene, the two
\* keys and the ids the scene refers to are all there
C34_Witness ==
    /\ Spawned
    /\ is_done
    /\ info.scenes = <<"s1">>
    /\ info.models = <<"k1">>
    /\ info.materials = <<"m1">>
    /\ DOMAIN scenes = {"s1"}
    /\ Key("m1") \in DOMAIN materials
    /\ Key("k1") \in DOMAIN models
    /\ Id("M1") \in DOMAIN materials
    /\ Id("D1") \in DOMAIN models

\* the per-bitmap locks worker w owns
EntryLocksOf(w) == {id \in BitmapIds : locks[EntryLock(id)] = w}

\* worker w is inside read_image, from its first line to its return
InReadImage(w) ==
    threads[w].pc \in {"read_image", "cache_entry", "bitmap_entry",
                       "image_loader", "decode"}

\* C36: a worker never owns more than one per-bitmap lock and never owns
\* the lock of the bitmap cache map while it waits for a per-bitmap lock,
\* waits for the image loader or decodes; it owns no per-bitmap lock when
\* it asks for the next bitmap of a material, nor anywhere outside
\* read_image.
C36_OneEntryLock ==
    \A w \in Workers :
       /\ Cardinality(EntryLocksOf(w)) <= 1
       /\ threads[w].pc \in {"bitmap_entry", "image_loader", "decode"}
             => locks[BitmapCacheLock] # w
       /\ threads[w].pc \in {"read_image", "cache_entry", "bitmap_entry"}
             => EntryLocksOf(w) = {}
       /\ ~InReadImage(w) => EntryLocksOf(w) = {} /\ locks[BitmapCacheLock] # w

\* a worker reading a material has decoded one bitmap and waits for the
\* per-bitmap lock of the next, which another worker owns while decoding;
\* a third party owns nothing of the map
C36_Witness ==
    \E w, v \in Workers :
       /\ w # v
       /\ threads[w].pc = "bitmap_entry"
       /\ DOMAIN threads[w].images # {}
       /\ locks[EntryLock(Head(threads[w].bitmap_ids))] = v
       /\ threads[v].pc = "decode"
       /\ locks[BitmapCacheLock] = 0

\* the models the active technique keeps a record of
TechniqueModelCount ==
    IF technique.kind = "Raster" THEN Len(technique.model_mesh_count)
                                 ELSE Len(technique.model_blas)

RECURSIVE TechniqueMeshesBefore(_)
\* the meshes of the first n models of the technique
TechniqueMeshesBefore(n) ==
    IF n = 0 THEN 0
    ELSE TechniqueMeshesBefore(n - 1)
         + (IF technique.kind = "Raster" THEN technique.model_mesh_count[n]
            ELSE Len(technique.model_blas[n].geometries))

\* ModelBuffer counts what its technique counts
CountsMatchTechnique ==
    /\ model_count = TechniqueModelCount
    /\ mesh_count = TechniqueMeshesBefore(TechniqueModelCount)
    /\ technique.kind = "Raster" => mesh_count = technique.mesh_count

\* the handle names a record of the technique, and the meshes in front of
\* that record are the ones in front of the handle's first mesh
IndexesOwnRecord(model) ==
    /\ model.model_idx < TechniqueModelCount
    /\ model.mesh_idx = TechniqueMeshesBefore(model.model_idx)

\* a call of load_model that returns an error
LoadModelFails ==
    /\ panicked = "no"
    /\ \E parts \in 1..MaxParts, outcome \in LoadOutcomes \ {"ok"},
          failed \in 1..MaxParts :
          /\ failed <= parts
          /\ outcome # "lease" => failed = 1
          /\ ModelBuffer_load_model(PakMeshParts(parts), outcome, failed)
    /\ loaded_models' = loaded_models

\* C35: after a load_model call that returned an error ModelBuffer's mesh
\* count and model count equal the counts of the active technique, and
\* every Model handle a successful load_model returned names that model's
\* own record and mesh range in the technique.
C35_CountsSurviveError ==
    [][/\ LoadModelFails => CountsMatchTechnique'
       /\ \A model \in loaded_models' : IndexesOwnRecord(model)']_vars

\* a load_model failed inside the technique and the next one succeeded:
\* its handle names a record the technique does not have
C35_Witness ==
    /\ panicked = "no"
    /\ model_count = TechniqueModelCount + 1
    /\ \E model \in loaded_models :
          /\ model.model_idx = TechniqueModelCount
          /\ ~IndexesOwnRecord(model)

\* the step that leaves a reduction loop and copies from the loop's result
CopyStep(pc) ==
    /\ bounding_sphere # <<>>
    /\ bounding_sphere.pc = pc
    /\ bounding_sphere'.pc # pc

\* the buffer a loop that recorded no pass hands on
WorkgroupBuf(pc) ==
    IF pc = "reduce_avg" THEN "avg_workgroup_buf" ELSE "dist_sq_workgroup_buf"

\* C37: for every vertex count and subgroup size the buffer whose first
\* element is copied to the center, and the one copied to the radius, is
\* the buffer the last recorded pass of its loop wrote: the output of the
\* last reduce pass, or the per-workgroup buffer when the loop recorded no
\* reduce pass; and no reduce pass reads the buffer it writes.
C37_CopiesLastWritten ==
    [][/\ CopyStep("reduce_avg") =>
             /\ bounding_sphere'.avg_buf = bounding_sphere.last_write
             /\ bounding_sphere'.center
                   = bounding_sphere.bufs[bounding_sphere.last_write][1]
             /\ bounding_sphere.reduce_passes = 0
                   => bounding_sphere'.avg_buf = WorkgroupBuf("reduce_avg")
       /\ CopyStep("reduce_dist_sq") =>
             /\ bounding_sphere'.dist_sq_buf = bounding_sphere.last_write
             /\ bounding_sphere'.radius
                   = bounding_sphere.bufs[bounding_sphere.last_write][1]
             /\ bounding_sphere.reduce_passes = 0
                   => bounding_sphere'.dist_sq_buf = WorkgroupBuf("reduce_dist_sq")
       /\ ReduceStep =>
             /\ bounding_sphere.input_buf # bounding_sphere.output_buf
             /\ bounding_sphere'.last_write = bounding_sphere.output_buf]_vars

\* five vertices in subgroups of two: three workgroups, two reduce passes in
\* each loop, so both copies read the per-workgroup buffer the second pass
\* wrote back into
C37_Witness ==
    /\ BoundingSphereDone
    /\ bounding_sphere.subgroup_size = 2
    /\ bounding_sphere.workgroup_count = 3
    /\ bounding_sphere.reduce_passes = 2
    /\ bounding_sphere.avg_buf = "avg_workgroup_buf"
    /\ bounding_sphere.dist_sq_buf = "dist_sq_workgroup_buf"
    /\ bounding_sphere.last_write = "dist_sq_workgroup_buf"

(***************************************************************************)
(* level/nav_mesh.rs: triangle_neighbors                                   *)
(***************************************************************************)
\* HashMap::get
MapGet(m, key) == IF key \in DOMAIN m THEN Some(m[key]) ELSE None

\* lines 85-87: the later triangle replaces the earlier owner of the edge
insert_edge(edges, i, j, index) == MapInsert(edges, <<i, j>>, index)

\* lines 88-93: the index is pushed behind the ones of the vertex
insert_corner(corners, i, index) ==
    MapInsert(corners, i,
              IF i \in DOMAIN corners THEN Append(corners[i], index)
                                      ELSE <<index>>)

\* the filter of one corner: the triangles of the vertex without the
\* triangle itself and without the two edge neighbours e1, e2
corner_filter(indices, triangle_index, e1, e2) ==
    LET Keep(i) == i # triangle_index /\ e1 # Some(i) /\ e2 # Some(i)
    IN  SelectSeq(indices, Keep)

\* the second corner filtered with the edges of the first
neighbor_indices_pasted(edges, corners, triangle_index, triangle) ==
    LET a == triangle[1]
        b == triangle[2]
        c == triangle[3]
        ba == MapGet(edges, <<b, a>>)
        cb == MapGet(edges, <<c, b>>)
        ac == MapGet(edges, <<a, c>>)
    IN  [corners |-> <<corner_filter(corners[a], triangle_index, ba, ac),
                       corner_filter(corners[b], triangle_index, ba, ac),
                       corner_filter(corners[c], triangle_index, cb, ac)>>,
         edges |-> <<ba, cb, ac>>]

\* lines 106-139: the NeighborIndices of the triangle [a, b, c]
neighbor_indices(edges, corners, triangle_index, triangle) ==
    LET a == triangle[1]
        b == triangle[2]
        c == triangle[3]
        ba == MapGet(edges, <<b, a>>)
        cb == MapGet(edges, <<c, b>>)
        ac == MapGet(edges, <<a, c>>)
    IN  [corners |-> <<corner_filter(corners[a], triangle_index, ba, ac),
                       corner_filter(corners[b], triangle_index, ba, cb),
                       corner_filter(corners[c], triangle_index, cb, ac)>>,
         edges |-> <<ba, cb, ac>>]

\* the mesh of the test triangle_neighbor_indices
TestTriangles ==
    << <<0, 1, 2>>, <<1, 3, 2>>, <<1, 4, 3>>, <<3, 4, 6>>, <<3, 6, 5>> >>

VertexIndices == 0..MaxVertex

Triangles == VertexIndices \X VertexIndices \X VertexIndices

\* a first triangle up to the names of its vertices: proper, or with two or
\* three of its corners on one vertex
FirstTriangles ==
    {<<0, 1, 2>>, <<0, 0, 1>>, <<0, 1, 0>>, <<0, 1, 1>>, <<0, 0, 0>>}

\* the triangles with three corners on three vertices
ProperTriangles == {t \in Triangles : t[1] # t[2] /\ t[2] # t[3] /\ t[3] # t[1]}

\* the triangle lists drawn: the one of the test, every list of one or two
\* triangles over the vertices 0..MaxVertex, and the longer lists of up to
\* MaxTriangles triangles in which only the first may be degenerate
TriangleLists ==
    {TestTriangles}
        \cup UNION {{<<first>> \o rest :
                        first \in FirstTriangles,
                        rest \in [1..n -> IF n < 2 THEN Triangles
                                                   ELSE ProperTriangles]}
                    : n \in 0..(MaxTriangles - 1)}

\* triangle_neighbors is entered: lines 82-83
NeighborsInit ==
    /\ PrimitiveIdle("Raster")
    /\ sbt = <<>>
    /\ excl_sum = <<>>
    /\ bounding_sphere = <<>>
    /\ \E triangle_indices \in TriangleLists :
          nav_mesh = [pc |-> "insert",
                      triangle_indices |-> triangle_indices,
                      triangle_index |-> 0,
                      edges |-> <<>>,
                      corners |-> <<>>,
                      res |-> <<>>]

NeighborsUnchanged ==
    /\ UNCHANGED <<sbt, excl_sum, bounding_sphere>>
    /\ UNCHANGED <<material_count, mesh_count, geometry_len, geometries,
                   model_count, model_instance_id, issued, subgroup_size, gpu,
                   passes, model_instance_index, model_instances, textures,
                   technique, loaded_models, panicked, written, ldVars>>

\* lines 96-103: one iteration of the first loop
InsertTriangle ==
    /\ nav_mesh.pc = "insert"
    /\ LET triangle_index == nav_mesh.triangle_index
           triangle == nav_mesh.triangle_indices[triangle_index + 1]
           a == triangle[1]
           b == triangle[2]
           c == triangle[3]
           last == triangle_index + 1 = Len(nav_mesh.triangle_indices)
       IN  nav_mesh' =
             [nav_mesh EXCEPT
                !.edges = insert_edge(insert_edge(insert_edge(@,
                              a, b, triangle_index),
                              b, c, triangle_index),
                              c, a, triangle_index),
                !.corners = insert_corner(insert_corner(insert_corner(@,
                              a, triangle_index),
                              b, triangle_index),
                              c, triangle_index),
                !.triangle_index = IF last THEN 0 ELSE triangle_index + 1,
                !.pc = IF last THEN "result" ELSE "insert"]
    /\ NeighborsUnchanged

\* lines 106-140: one iteration of the second loop
PushNeighbors ==
    /\ nav_mesh.pc = "result"
    /\ LET triangle_index == nav_mesh.triangle_index
           triangle == nav_mesh.triangle_indices[triangle_index + 1]
           last == triangle_index + 1 = Len(nav_mesh.triangle_indices)
       IN  nav_mesh' =
             [nav_mesh EXCEPT
                !.res = Append(@, neighbor_indices(nav_mesh.edges, nav_mesh.corners,
                                                   triangle_index, triangle)),
                !.triangle_index = IF last THEN 0 ELSE triangle_index + 1,
                !.pc = IF last THEN "done" ELSE "result"]
    /\ NeighborsUnchanged

NeighborsNext == InsertTriangle \/ PushNeighbors

NeighborsSpec == NeighborsInit /\ [][NeighborsNext]_vars

\* triangle u (0-based) has the directed edge (i, j)
HasDirectedEdge(u, i, j) ==
    LET t == nav_mesh.triangle_indices[u + 1]
    IN  <<i, j>> \in {<<t[1], t[2]>>, <<t[2], t[3]>>, <<t[3], t[1]>>}

TriangleIndexes == 0..(Len(nav_mesh.triangle_indices) - 1)

EdgeOwners(i, j) == {u \in TriangleIndexes : HasDirectedEdge(u, i, j)}

\* each directed edge belongs to at most one triangle
DirectedEdgesUnique ==
    \A u \in TriangleIndexes :
       LET t == nav_mesh.triangle_indices[u + 1]
       IN  /\ EdgeOwners(t[1], t[2]) = {u}
           /\ EdgeOwners(t[2], t[3]) = {u}
           /\ EdgeOwners(t[3], t[1]) = {u}

\* the triangle that owns the directed edge (i, j), or none
EdgeOwner(i, j) ==
    IF EdgeOwners(i, j) = {} THEN None
    ELSE Some(CHOOSE u \in EdgeOwners(i, j) : TRUE)

\* the edge slots of the two edges that meet at corner k (1-based): corner a
\* lies on ab and ca, corner b on ab and bc, corner c on bc and ca
SlotsAtCorner(k) == IF k = 1 THEN {1, 3} ELSE IF k = 2 THEN {1, 2} ELSE {2, 3}

\* the triangles that share the vertex at corner k of triangle u, without u
\* and without the edge neighbours of u across the edges through the corner
CornerNeighbors(u, k) ==
    LET t == nav_mesh.triangle_indices[u + 1]
        n == nav_mesh.res[u + 1]
    IN  {v \in TriangleIndexes :
           /\ t[k] \in {nav_mesh.triangle_indices[v + 1][c] : c \in 1..3}
           /\ v # u
           /\ \A e \in SlotsAtCorner(k) : n.edges[e] # Some(v)}

Ascending(q) == \A x, y \in DOMAIN q : x < y => q[x] <= q[y]

StrictlyAscending(q) == \A x, y \in DOMAIN q : x < y => q[x] < q[y]

\* no triangle of the list has two corners on one vertex
TrianglesProper ==
    \A u \in TriangleIndexes :
       LET t == nav_mesh.triangle_indices[u + 1]
       IN  t[1] # t[2] /\ t[2] # t[3] /\ t[3] # t[1]

NeighborsDone == nav_mesh # <<>> /\ nav_mesh.pc = "done"

\* C31: for every triangle list in which each directed edge belongs to at
\* most one triangle, triangle_neighbors gives one entry per triangle
\* [a, b, c]: its edge slots 0, 1, 2 name the owner of the reversed edge
\* (b, a), (c, b), (a, c), or none; its corner slot k lists in ascending
\* triangle order exactly the triangles that share the k-th vertex, except
\* the triangle itself and its edge neighbours across the two edges that
\* meet at the vertex; the listing has no triangle twice when no triangle
\* has two corners on one vertex.
C31_TriangleNeighbors ==
    (NeighborsDone /\ DirectedEdgesUnique) =>
        /\ Len(nav_mesh.res) = Len(nav_mesh.triangle_indices)
        /\ \A u \in TriangleIndexes :
              LET t == nav_mesh.triangle_indices[u + 1]
                  n == nav_mesh.res[u + 1]
              IN  /\ n.edges = <<EdgeOwner(t[2], t[1]), EdgeOwner(t[3], t[2]),
                                 EdgeOwner(t[1], t[3])>>
                  /\ \A k \in 1..3 :
                        /\ {n.corners[k][x] : x \in DOMAIN n.corners[k]}
                              = CornerNeighbors(u, k)
                        /\ Ascending(n.corners[k])
                        /\ TrianglesProper => StrictlyAscending(n.corners[k])

\* the mesh of the test: the second triangle has the last two triangles at
\* its corner b, the last triangle the second and third at its corner a
C31_Witness ==
    /\ NeighborsDone
    /\ nav_mesh.triangle_indices = TestTriangles
    /\ DirectedEdgesUnique
    /\ nav_mesh.res[1] = [corners |-> << <<>>, <<2>>, <<>> >>,
                          edges |-> <<None, Some(1), None>>]
    /\ nav_mesh.res[2] = [corners |-> << <<>>, <<3, 4>>, <<>> >>,
                          edges |-> <<Some(2), None, Some(0)>>]
    /\ nav_mesh.res[3] = [corners |-> << <<0>>, <<>>, <<4>> >>,
                          edges |-> <<None, Some(3), Some(1)>>]
    /\ nav_mesh.res[4] = [corners |-> << <<1>>, <<>>, <<>> >>,
                          edges |-> <<Some(2), None, Some(4)>>]
    /\ nav_mesh.res[5] = [corners |-> << <<1, 2>>, <<>>, <<>> >>,
                          edges |-> <<Some(3), None, None>>]

(***************************************************************************)
(* level/nav_mesh.rs: NavigationMesh                                       *)
(* Positions are Vec3 with whole coordinates; on the meshes drawn every    *)
(* quotient the code forms is a whole number or a dyadic fraction that     *)
(* multiplies back to a whole coordinate, so f32 computes what is here.    *)
(***************************************************************************)
VecSub(u, v) == <<u[1] - v[1], u[2] - v[2], u[3] - v[3]>>

Dot(u, v) == u[1] * v[1] + u[2] * v[2] + u[3] * v[3]

distance_squared(u, v) == Dot(VecSub(u, v), VecSub(u, v))

\* origin + (num / den) * dir
Along(origin, dir, num, den) ==
    [i \in 1..3 |-> origin[i] + (dir[i] * num) \div den]

ClosestPoint_Edge(e, point) == [kind |-> "Edge", index |-> e, point |-> point]

ClosestPoint_Face(point) == [kind |-> "Face", index |-> 0, point |-> point]

ClosestPoint_Vertex(v) == [kind |-> "Vertex", index |-> v, point |-> <<0, 0, 0>>]

\* lines 6-76
closest_point_triangle(p, triangle) ==
    LET a == triangle[1]
        b == triangle[2]
        c == triangle[3]
        ab == VecSub(b, a)
        ac == VecSub(c, a)
        ap == VecSub(p, a)
        d1 == Dot(ab, ap)
        d2 == Dot(ac, ap)
        bp == VecSub(p, b)
        d3 == Dot(ab, bp)
        d4 == Dot(ac, bp)
        vc == d1 * d4 - d3 * d2
        cp == VecSub(p, c)
        d5 == Dot(ab, cp)
        d6 == Dot(ac, cp)
        vb == d5 * d2 - d1 * d6
        va == d3 * d6 - d5 * d4
    IN  IF d1 <= 0 /\ d2 <= 0 THEN ClosestPoint_Vertex(0)
        ELSE IF d3 >= 0 /\ d4 <= d3 THEN ClosestPoint_Vertex(1)
        ELSE IF vc <= 0 /\ d1 >= 0 /\ d3 <= 0
        THEN ClosestPoint_Edge(0, Along(a, ab, d1, d1 - d3))
        ELSE IF d6 >= 0 /\ d5 <= d6 THEN ClosestPoint_Vertex(2)
        ELSE IF vb <= 0 /\ d2 >= 0 /\ d6 <= 0
        THEN ClosestPoint_Edge(2, Along(a, ac, d2, d2 - d6))
        ELSE IF va <= 0 /\ d4 - d3 >= 0 /\ d5 - d6 >= 0
        THEN ClosestPoint_Edge(1, Along(b, VecSub(c, b), d4 - d3,
                                        (d4 - d3) + (d5 - d6)))
        ELSE ClosestPoint_Face(
                 Along(Along(a, ab, vb, va + vb + vc), ac, vc, va + vb + vc))

RECURSIVE inserted_edges(_, _)
\* the edges map after the first n iterations of the first loop
inserted_edges(list, n) ==
    IF n = 0 THEN <<>>
    ELSE LET t == list[n]
         IN  insert_edge(insert_edge(insert_edge(inserted_edges(list, n - 1),
                 t[1], t[2], n - 1), t[2], t[3], n - 1), t[3], t[1], n - 1)

RECURSIVE inserted_corners(_, _)
\* the corners map after the first n iterations of the first loop
inserted_corners(list, n) ==
    IF n = 0 THEN <<>>
    ELSE LET t == list[n]
         IN  insert_corner(insert_corner(insert_corner(inserted_corners(list, n - 1),
                 t[1], n - 1), t[2], n - 1), t[3], n - 1)

\* lines 78-147 as the function it computes
triangle_neighbors(list) ==
    [u \in 1..Len(list) |->
        neighbor_indices(inserted_edges(list, Len(list)),
                         inserted_corners(list, Len(list)), u - 1, list[u])]

\* lines 177-198
NavigationMesh_new(indices, vertices) ==
    LET triangle_count == Len(indices) \div 3
        triangle_indices ==
            [u \in 1..triangle_count |->
                <<indices[3 * u - 2], indices[3 * u - 1], indices[3 * u]>>]
    IN  [neighbor_indices |-> triangle_neighbors(triangle_indices),
         triangle_indices |-> triangle_indices,
         vertices |-> vertices]

\* the corners of triangle triangle_index of the mesh
TriangleOf(mesh, triangle_index) ==
    LET t == At(mesh.triangle_indices, triangle_index)
    IN  <<At(mesh.vertices, t[1]), At(mesh.vertices, t[2]), At(mesh.vertices, t[3])>>

\* the point of a ClosestPoint, as locate and the vertex arm of walk take it
PointOf(closest, triangle) ==
    IF closest.kind = "Vertex" THEN At(triangle, closest.index) ELSE closest.point

MeshLocation(triangle_index, position) ==
    [triangle_index |-> triangle_index, position |-> position]

RECURSIVE locate_from(_, _, _, _)
\* lines 208-222: the loop of locate from triangle n on; best is None for
\* f32::MAX, or the least squared distance so far
locate_from(mesh, position, n, best) ==
    IF n >= Len(mesh.triangle_indices) THEN best
    ELSE LET triangle == TriangleOf(mesh, n)
             closest_point == PointOf(closest_point_triangle(position, triangle),
                                      triangle)
             d == distance_squared(position, closest_point)
         IN  locate_from(mesh, position, n + 1,
                 IF best.distance_squared = None \/ d < best.distance_squared[1]
                 THEN [distance_squared |-> Some(d),
                       location |-> MeshLocation(n, closest_point)]
                 ELSE best)

\* lines 203-228
NavigationMesh_locate(mesh, position) ==
    locate_from(mesh, position, 0,
                [distance_squared |-> None,
                 location |-> MeshLocation(0, <<0, 0, 0>>)]).location

\* closest_point_triangle(target, triangle) for every triangle of the mesh:
\* what each call of one walk returns, as its target does not change
ClosestPoints(mesh, target) ==
    [u \in 1..Len(mesh.triangle_indices) |->
        closest_point_triangle(target, TriangleOf(mesh, u - 1))]

RECURSIVE walk_corners(_, _, _, _, _, _)
\* lines 271-292: the loop over the corner neighbours from element n on;
\* closest holds closest_point_triangle(target, _) per triangle
walk_corners(mesh, closest, indices, n, start_position, best) ==
    IF n > Len(indices) THEN best
    ELSE LET triangle == TriangleOf(mesh, indices[n])
             position == PointOf(At(closest, indices[n]), triangle)
             d == Dot(VecSub(start_position, position),
                      VecSub(start_position, nav_mesh.target))
         IN  walk_corners(mesh, closest, indices, n + 1, start_position,
                 IF d > best.best_distance
                 THEN [best_distance |-> d,
                       location |-> MeshLocation(indices[n], position)]
                 ELSE best)

\* a square of two triangles, as the mesh of the test locate_position; one
\* triangle; two triangles that meet in one vertex
NavMeshes ==
    {NavigationMesh_new(<<0, 1, 3, 0, 3, 2>>,
                        << <<0, 0, 8>>, <<8, 0, 8>>, <<0, 0, 0>>, <<8, 0, 0>> >>),
     NavigationMesh_new(<<0, 1, 2>>,
                        << <<0, 0, 0>>, <<8, 0, 0>>, <<0, 0, 8>> >>),
     NavigationMesh_new(<<0, 1, 2, 0, 3, 4>>,
                        << <<8, 0, 8>>, <<0, 0, 8>>, <<8, 0, 0>>, <<16, 0, 8>>,
                           <<8, 0, 16>> >>)}

Coordinates == {2 * k : k \in 0..(MaxCoordinate \div 2)}

Directions ==
    {2 * k : k \in 0..(MaxDirection \div 2)}
        \cup {-2 * k : k \in 0..(MaxDirection \div 2)}

\* a mesh is built and a world position located on it: the caller holds
\* the MeshLocation that locate returned
WalkInit ==
    /\ PrimitiveIdle("Raster")
    /\ sbt = <<>>
    /\ excl_sum = <<>>
    /\ bounding_sphere = <<>>
    /\ \E mesh \in NavMeshes, x \in Coordinates, z \in Coordinates :
          nav_mesh = [pc |-> "idle",
                      mesh |-> mesh,
                      location |-> NavigationMesh_locate(mesh, <<x, 0, z>>),
                      target |-> <<0, 0, 0>>,
                      closest |-> <<>>,
                      distance_remaining |-> 0,
                      iterations |-> 0]

\* lines 245-249: walk is entered and the loop condition read
Walk ==
    /\ nav_mesh.pc = "idle"
    /\ \E dx \in Directions, dy \in Directions :
          LET distance_remaining == dx * dx + dy * dy
              target == VecAdd(nav_mesh.location.position, <<dx, 0, dy>>)
          IN  nav_mesh' =
                [nav_mesh EXCEPT
                   !.pc = IF distance_remaining > 0 THEN "loop" ELSE "returned",
                   !.target = target,
                   !.closest = ClosestPoints(nav_mesh.mesh, target),
                   !.distance_remaining = distance_remaining,
                   !.iterations = 0]
    /\ NeighborsUnchanged

\* the ClosestPoint of the target on the current triangle: lines 250-255
WalkClosest == At(nav_mesh.closest, nav_mesh.location.triangle_index)

\* line 296 and the loop condition
WalkAgain(location) ==
    LET distance_remaining ==
            nav_mesh.distance_remaining
                - distance_squared(nav_mesh.target, location.position)
    IN  nav_mesh' =
          [nav_mesh EXCEPT
             !.location = location,
             !.distance_remaining = distance_remaining,
             !.iterations = @ + 1,
             !.pc = IF distance_remaining > 0 THEN "loop" ELSE "returned"]

\* lines 256-264: an iteration whose closest point is on an edge
WalkEdge ==
    /\ nav_mesh.pc = "loop"
    /\ nav_mesh.iterations < MaxWalkIterations
    /\ WalkClosest.kind = "Edge"
    /\ LET neighbor == At(nav_mesh.mesh.neighbor_indices,
                          nav_mesh.location.triangle_index).edges[WalkClosest.index + 1]
       IN  WalkAgain(MeshLocation(
               IF neighbor # None THEN neighbor[1]
                                  ELSE nav_mesh.location.triangle_index,
               WalkClosest.point))
    /\ NeighborsUnchanged

\* lines 265-268: the closest point is in the face, the loop is left
WalkFace ==
    /\ nav_mesh.pc = "loop"
    /\ nav_mesh.iterations < MaxWalkIterations
    /\ WalkClosest.kind = "Face"
    /\ nav_mesh' =
         [nav_mesh EXCEPT
            !.location.position = WalkClosest.point,
            !.iterations = @ + 1,
            !.pc = "returned"]
    /\ NeighborsUnchanged

\* lines 269-293: an iteration whose closest point is a corner
WalkVertex ==
    /\ nav_mesh.pc = "loop"
    /\ nav_mesh.iterations < MaxWalkIterations
    /\ WalkClosest.kind = "Vertex"
    /\ WalkAgain(
          walk_corners(nav_mesh.mesh, nav_mesh.closest,
                       At(nav_mesh.mesh.neighbor_indices,
                          nav_mesh.location.triangle_index).corners[WalkClosest.index + 1],
                       1, nav_mesh.location.position,
                       [best_distance |-> 0, location |-> nav_mesh.location]).location)
    /\ NeighborsUnchanged

WalkNext == Walk \/ WalkEdge \/ WalkFace \/ WalkVertex

WalkSpec == WalkInit /\ [][WalkNext]_vars

\* the thread that called walk keeps running
WalkLive == WalkSpec /\ WF_vars(WalkNext)

\* C38: walk returns after finitely many iterations of its loop for every
\* mesh, start location and direction, also when the closest point of the
\* target on the current triangle is the target itself, and the triangle
\* index of the location it holds is always one of the mesh.
C38_WalkReturns ==
    /\ [](nav_mesh.location.triangle_index
            \in 0..(Len(nav_mesh.mesh.triangle_indices) - 1))
    /\ <>(nav_mesh.pc = "returned")

\* a walk on the single triangle from (2, 0, 2) by (0, -2) to the point
\* (2, 0, 0) of the edge ab: the closest point is the target, nothing is
\* taken off distance_remaining, and the loop has run MaxWalkIterations
\* times without an end
C38_Witness ==
    /\ nav_mesh.pc = "loop"
    /\ Len(nav_mesh.mesh.triangle_indices) = 1
    /\ nav_mesh.target = <<2, 0, 0>>
    /\ nav_mesh.location.position = nav_mesh.target
    /\ nav_mesh.distance_remaining = 4
    /\ nav_mesh.iterations = MaxWalkIterations

====
